---- MODULE Spec2Model ----
(***************************************************************************)
(* Order engine, table availability view, customer ledger, stock rows,     *)
(* coupons and subscription plans of the restaurant back end, as a state   *)
(* machine over the relational store.                                      *)
(*                                                                         *)
(* Each action is one route handler run to completion against the store    *)
(* (requests are served one at a time in the specifications below).  The   *)
(* order update handler is the exception: it issues two separate writes    *)
(* (deleteMany, then update), modelled as two actions so that the state    *)
(* between them is a state of the model.                                   *)
(*                                                                         *)
(* Absent values follow JavaScript truthiness: an absent number is 0, an   *)
(* absent string is "", an absent array is hasCart = FALSE.                *)
(***************************************************************************)
EXTENDS Integers, Sequences, FiniteSets, TLC

VARIABLES
  orders,     \* "orders" table: sequence indexed by order id (SERIAL, never deleted)
  items,      \* "order_items" rows of each order, in insertion order
  products,   \* "Product" table: product id -> row (exists = FALSE once deleted)
  customers,  \* "Customer" table: row id -> row
  tables,     \* "Table" table: sequence indexed by table id (SERIAL, never deleted)
  inventory,  \* "InventoryItem" table: row id -> row
  coupons,    \* "Coupon" table: sequence indexed by coupon id
  plans,      \* "Plan" table: business id -> row (exists = FALSE when there is none)
  now,        \* the server clock: days for the plans, ten-minute ticks for the OTPs
  put,        \* the order update request between its deleteMany and its update
  resp,       \* the response of the handler that has just finished (NoResp otherwise)
  calls,      \* the requests in flight whose handlers are followed await by await
  otpRequestTimes,  \* the in-memory limiter: email -> times of the OTPs sent
  passwordResets,   \* "PasswordReset" table, in insertion order
  owners,     \* "BusinessOwner" table: sequence indexed by id (exists = FALSE once deleted)
  business,   \* "Business" table: sequence indexed by id
  verifiedEmails    \* history: the emails for which /verify has answered 200

vars ==
  <<orders, items, products, customers, tables, inventory, coupons, plans, now,
    put, resp, calls, otpRequestTimes, passwordResets, owners, business,
    verifiedEmails>>

\* The state of the routers that are followed step by step or lie outside the
\* order flow; the handlers modelled as one step leave it alone.
sideVars ==
  <<calls, otpRequestTimes, passwordResets, owners, business, verifiedEmails>>

\* The state of the order flow.
storeVars ==
  <<orders, items, products, customers, tables, inventory, coupons, plans, now,
    put>>

(***************************************************************************)
(* Bounds of the model.                                                    *)
(***************************************************************************)
MaxOrders == 2

Businesses == {1, 2}
TableNumbers == {1, 2}
ProductIds == {1, 2}
OrderIds == 1..MaxOrders

(***************************************************************************)
(* Bearer tokens.  A token is its signature state and its payload.         *)
(***************************************************************************)
NoToken ==
  [kind |-> "none", id |-> 0, customerId |-> 0, userId |-> 0,
   businessId |-> 0, role |-> ""]

\* A token that jwt.verify rejects (forged or expired), whatever it carries.
InvalidToken(c) ==
  [kind |-> "invalid", id |-> c, customerId |-> c, userId |-> 0,
   businessId |-> 1, role |-> ""]

\* The token customer login signs: the per-tenant sequence number, no "id".
CustomerLoginToken(c) ==
  [kind |-> "signed", id |-> 0, customerId |-> customers[c].customerId,
   userId |-> 0, businessId |-> customers[c].businessId, role |-> ""]

\* The token owner login signs.
OwnerToken(b) ==
  [kind |-> "signed", id |-> 0, customerId |-> 0, userId |-> b,
   businessId |-> b, role |-> "Owner"]

\* The token login signs for a user registered with another role string.
UserToken(b, role) == [OwnerToken(b) EXCEPT !.role = role]

\* A signed token of the payload shape order creation decodes: {id, email, businessId}.
IdToken(c) ==
  [kind |-> "signed", id |-> c, customerId |-> 0, userId |-> 0,
   businessId |-> 1, role |-> ""]

\* jwt.verify(token, secret): throws unless the signature and expiry are good.
VerifyToken(tok) == tok.kind = "signed"

\* A plausible slip: the payload is decoded without being verified.
OrderCustomerIdUnverified(tok) == IF tok.kind = "none" THEN 0 ELSE tok.id

\* Order creation's optional customer: decoded.id of a verified bearer token.
OrderCustomerId(tok) ==
  IF tok.kind # "none" /\ VerifyToken(tok) THEN tok.id ELSE 0

\* authenticateBusinessOwnerJWT: 0 when next() is called, else the status sent.
OwnerAuth(tok) ==
  IF tok.kind = "none" THEN 401
  ELSE IF ~VerifyToken(tok) THEN 403
  ELSE 0

(***************************************************************************)
(* Requests and responses.                                                 *)
(***************************************************************************)
NoReq ==
  [tok |-> NoToken, oid |-> 0, businessId |-> 0, table_number |-> 0,
   hasCart |-> FALSE, cart_items |-> <<>>, total_amount |-> 0,
   payment_method |-> "", estimated_time |-> "", pointsUsed |-> 0,
   productId |-> 0, status |-> "", storeFails |-> FALSE,
   code |-> <<>>, orderTotal |-> 0, name |-> "", expiresAt |-> 0,
   email |-> "", otp |-> "", newPassword |-> "", userId |-> 0, role |-> ""]

NoResp ==
  [op |-> "", code |-> 0, oid |-> 0, status |-> "", list |-> <<>>, discount |-> 0,
   req |-> NoReq]

Reply(op, code, oid, status, req) ==
  [NoResp EXCEPT !.op = op, !.code = code, !.oid = oid, !.status = status,
                 !.req = req]

ReplyList(op, code, list, req) ==
  [NoResp EXCEPT !.op = op, !.code = code, !.list = list, !.req = req]

ReplyDiscount(op, code, oid, discount, req) ==
  [NoResp EXCEPT !.op = op, !.code = code, !.oid = oid, !.discount = discount,
                 !.req = req]

NoPut == [active |-> FALSE, oid |-> 0, existingItems |-> <<>>, req |-> NoReq]

\* The slots for requests in flight, and a free slot.  pc is the await the
\* handler stands at, read what its last query returned, sent the number of
\* responses written for the request.
Calls == {1, 2}

NoCall ==
  [pc |-> "idle", op |-> "", req |-> NoReq, read |-> 0, code |-> 0, sent |-> 0]

Free(p) == calls[p].pc \in {"idle", "done"}

Arrived(op, req) == [NoCall EXCEPT !.pc = "handler", !.op = op, !.req = req]

Answered(c, code) == [c EXCEPT !.pc = "done", !.code = code, !.sent = @ + 1]

(***************************************************************************)
(* Status derivation.                                                      *)
(***************************************************************************)
AllItemsCompleted(its) == \A i \in 1..Len(its) : its[i].status = "Completed"

\* allItemsCompleted && items.length > 0 ? "Completed" : "Pending"
DerivedStatus(its) ==
  IF AllItemsCompleted(its) /\ Len(its) > 0 THEN "Completed" ELSE "Pending"

\* Prisma leaves a column alone when the value given for it is undefined.
SetIfGiven(old, new) == IF new = "" THEN old ELSE new

(***************************************************************************)
(* Initial store: two products, two customers, one stock row per tenant.   *)
(***************************************************************************)
InitPoints == 3

InitProducts ==
  (1 :> [exists |-> TRUE, businessId |-> 1, price |-> 10, name |-> "Tea",
         ingredients |-> <<[name |-> "leaf", quantity |-> 2, numeric |-> TRUE],
                           [name |-> "leaf", quantity |-> 0, numeric |-> FALSE]>>])
  @@
  (2 :> [exists |-> TRUE, businessId |-> 1, price |-> 20, name |-> "Bun",
         ingredients |-> <<>>])

InitCustomers ==
  (1 :> [businessId |-> 1, customerId |-> 1, name |-> "Asha", email |-> "asha@c.io",
         points |-> InitPoints, totalOrders |-> 0, totalMoneySpent |-> 0])
  @@
  (2 :> [businessId |-> 2, customerId |-> 1, name |-> "Ravi", email |-> "ravi@c.io",
         points |-> InitPoints, totalOrders |-> 0, totalMoneySpent |-> 0])

InitInventory ==
  (1 :> [name |-> "leaf", businessId |-> 1, quantity |-> 10])
  @@
  (2 :> [name |-> "leaf", businessId |-> 2, quantity |-> 10])

\* Two registered owners, each connected to the business created with them
\* (auth.ts register: role defaults to "Owner").
InitOwners ==
  <<[email |-> "asha@x.io", password |-> "old", businessId |-> 1, role |-> "Owner",
     restaurantEditCount |-> 0, exists |-> TRUE],
    [email |-> "ravi@x.io", password |-> "old", businessId |-> 2, role |-> "Owner",
     restaurantEditCount |-> 0, exists |-> TRUE]>>

InitBusiness == <<[name |-> "Cafe"], [name |-> "Diner"]>>

\* The addresses password-reset requests are sent for, as typed and as keyed.
Emails == {"Asha@x.io", "nobody@x.io"}

\* email.toLowerCase()
toLowerCase(email) == IF email = "Asha@x.io" THEN "asha@x.io" ELSE email

LowerEmails == {toLowerCase(e) : e \in Emails}

\* No plan row for a business.
NoPlan == [exists |-> FALSE, name |-> "", status |-> "", expiresAt |-> 0]

Init ==
  /\ orders = <<>>
  /\ items = <<>>
  /\ products = InitProducts
  /\ customers = InitCustomers
  /\ tables = <<>>
  /\ inventory = InitInventory
  /\ coupons = <<>>
  /\ plans = [b \in Businesses |-> NoPlan]
  /\ now = 0
  /\ put = NoPut
  /\ resp = NoResp
  /\ calls = [p \in Calls |-> NoCall]
  /\ otpRequestTimes = [e \in LowerEmails |-> <<>>]
  /\ passwordResets = <<>>
  /\ owners = InitOwners
  /\ business = InitBusiness
  /\ verifiedEmails = {}

(***************************************************************************)
(* POST /api/orders: create an order.                                      *)
(***************************************************************************)
\* The three 400 checks on the request body.
CreateValid(req) ==
  /\ req.businessId # 0
  /\ req.table_number # 0
  /\ req.hasCart
  /\ req.total_amount # 0
  /\ req.payment_method # ""
  /\ req.estimated_time # ""
  /\ Len(req.cart_items) > 0

\* Foreign keys of the nested create: every product, and the customer if any.
CreateForeignKeysHold(req, cid) ==
  /\ \A i \in 1..Len(req.cart_items) :
        /\ req.cart_items[i].productId \in DOMAIN products
        /\ products[req.cart_items[i].productId].exists
  /\ cid # 0 => cid \in DOMAIN customers

NewOrderRow(req, cid) ==
  [businessId |-> req.businessId, tableNumber |-> req.table_number,
   totalAmount |-> req.total_amount, status |-> "Pending", customerId |-> cid]

\* A plausible slip: the item rows take the catalogue's price, not the request's.
NewItemRowsFromCatalogue(cart) ==
  [i \in 1..Len(cart) |->
     [productId |-> cart[i].productId, quantity |-> cart[i].quantity,
      price |-> products[cart[i].productId].price, name |-> cart[i].name,
      status |-> "Pending"]]

\* cart_items.map(...): the request's price and name, status Pending.
NewItemRows(cart) ==
  [i \in 1..Len(cart) |->
     [productId |-> cart[i].productId, quantity |-> cart[i].quantity,
      price |-> cart[i].price, name |-> cart[i].name, status |-> "Pending"]]

\* A plausible slip: the balance test is left out.
RedeemUnchecked(custs, cid, pointsUsed) ==
  IF cid # 0 /\ pointsUsed > 0 /\ cid \in DOMAIN custs
    THEN [custs EXCEPT ![cid].points = @ - pointsUsed]
    ELSE custs

\* Redemption: decrement only when the balance read covers pointsUsed.
Redeem(custs, cid, pointsUsed) ==
  IF cid # 0 /\ pointsUsed > 0 /\ cid \in DOMAIN custs
     /\ custs[cid].points >= pointsUsed
    THEN [custs EXCEPT ![cid].points = @ - pointsUsed]
    ELSE custs

\* Math.floor(Number(total_amount) / 100)
EarnedPoints(total) == total \div 100

\* A plausible slip: Math.round where Math.floor should be.
AccrueRounded(custs, cid, total) ==
  IF cid # 0
    THEN [custs EXCEPT ![cid] =
            [@ EXCEPT !.totalOrders = @ + 1,
                      !.totalMoneySpent = @ + total,
                      !.points = @ + ((total + 50) \div 100)]]
    ELSE custs

\* Accrual: one more order, the total spent, the points earned.
Accrue(custs, cid, total) ==
  IF cid # 0
    THEN [custs EXCEPT ![cid] =
            [@ EXCEPT !.totalOrders = @ + 1,
                      !.totalMoneySpent = @ + total,
                      !.points = @ + EarnedPoints(total)]]
    ELSE custs

\* A plausible slip: the tenant filter is left out of the stock update.
DeductIngredientAnyTenant(inv, b, ing, qty) ==
  IF ing.numeric
    THEN [r \in DOMAIN inv |->
            IF inv[r].name = ing.name
              THEN [inv[r] EXCEPT !.quantity = @ - ing.quantity * qty]
              ELSE inv[r]]
    ELSE inv

\* inventoryItem.updateMany({name, businessId}, decrement): skipped on NaN.
DeductIngredient(inv, b, ing, qty) ==
  IF ing.numeric
    THEN [r \in DOMAIN inv |->
            IF inv[r].name = ing.name /\ inv[r].businessId = b
              THEN [inv[r] EXCEPT !.quantity = @ - ing.quantity * qty]
              ELSE inv[r]]
    ELSE inv

RECURSIVE DeductIngredients(_, _, _, _)
DeductIngredients(inv, b, ings, qty) ==
  IF ings = <<>> THEN inv
  ELSE DeductIngredients(DeductIngredient(inv, b, Head(ings), qty), b, Tail(ings), qty)

\* dish?.metadata ... ingredients || []
IngredientsOf(pid) ==
  IF pid \in DOMAIN products /\ products[pid].exists
    THEN products[pid].ingredients
    ELSE <<>>

RECURSIVE DeductCart(_, _, _)
DeductCart(inv, b, cart) ==
  IF cart = <<>> THEN inv
  ELSE DeductCart(
         DeductIngredients(inv, b, IngredientsOf(Head(cart).productId),
                           Head(cart).quantity),
         b, Tail(cart))

CreateOrder(tok, body, storeFails) ==
  /\ ~put.active
  /\ LET req == [body EXCEPT !.tok = tok, !.storeFails = storeFails]
         cid == OrderCustomerId(tok)
         oid == Len(orders) + 1
     IN IF ~CreateValid(req)
          THEN /\ resp' = Reply("create", 400, 0, "", req)
               /\ UNCHANGED <<orders, items, customers, inventory>>
        ELSE IF storeFails \/ ~CreateForeignKeysHold(req, cid)
          THEN /\ resp' = Reply("create", 500, 0, "", req)
               /\ UNCHANGED <<orders, items, customers, inventory>>
        ELSE /\ orders' = Append(orders, NewOrderRow(req, cid))
             /\ items' = Append(items, NewItemRows(req.cart_items))
             /\ customers' =
                  Accrue(Redeem(customers, cid, req.pointsUsed), cid, req.total_amount)
             /\ inventory' = DeductCart(inventory, req.businessId, req.cart_items)
             /\ resp' = Reply("create", 201, oid, "Pending", req)
  /\ UNCHANGED <<sideVars, products, tables, put, coupons, plans, now>>

(***************************************************************************)
(* PUT /api/orders/:orderId: replace the items of an order.  Two writes:   *)
(* orderItem.deleteMany, then order.update with a nested create.           *)
(***************************************************************************)
\* existingItems.find(e => e.productId === item.productId)?.status
MatchedStatus(existing, pid) ==
  IF \E i \in 1..Len(existing) : existing[i].productId = pid
    THEN existing[CHOOSE i \in 1..Len(existing) :
                    /\ existing[i].productId = pid
                    /\ \A j \in 1..(i - 1) : existing[j].productId # pid].status
    ELSE ""

\* A plausible slip: the status of the deleted item is not carried over.
UpdatedItemStatusReset(item, existing) ==
  IF item.status # "" THEN item.status ELSE "Pending"

\* item.status || matched?.status || "Pending"
UpdatedItemStatus(item, existing) ==
  IF item.status # "" THEN item.status
  ELSE IF MatchedStatus(existing, item.productId) # ""
    THEN MatchedStatus(existing, item.productId)
  ELSE "Pending"

UpdatedItemRows(cart, existing) ==
  [i \in 1..Len(cart) |->
     [productId |-> cart[i].productId, quantity |-> cart[i].quantity,
      price |-> cart[i].price, name |-> cart[i].name,
      status |-> UpdatedItemStatus(cart[i], existing)]]

CartProductsExist(cart) ==
  \A i \in 1..Len(cart) :
     cart[i].productId \in DOMAIN products /\ products[cart[i].productId].exists

\* The header columns order.update writes: status is not among them.
UpdatedOrderRow(row, req) ==
  [row EXCEPT !.tableNumber = IF req.table_number = 0 THEN @ ELSE req.table_number,
              !.totalAmount = IF req.total_amount = 0 THEN @ ELSE req.total_amount]

\* Validation, the ownership check, the read of the existing items, deleteMany.
PutOrderDelete(body) ==
  /\ ~put.active
  /\ LET req == body
         oid == req.oid
     IN IF req.businessId = 0
          THEN /\ resp' = Reply("update", 400, oid, "", req)
               /\ UNCHANGED <<items, put>>
        ELSE IF oid \notin DOMAIN orders \/ orders[oid].businessId # req.businessId
          THEN /\ resp' = Reply("update", 403, oid, "", req)
               /\ UNCHANGED <<items, put>>
        ELSE /\ items' = [items EXCEPT ![oid] = <<>>]
             /\ put' = [active |-> TRUE, oid |-> oid,
                        existingItems |-> items[oid], req |-> req]
             /\ resp' = NoResp
  /\ UNCHANGED <<sideVars, orders, products, customers, tables, inventory,
                 coupons, plans, now>>

\* order.update with the nested create: it throws when cart_items is not an
\* array, when a product of the cart is gone, or when the store fails.
PutOrderWrite(storeFails) ==
  /\ put.active
  /\ LET req == put.req
         oid == put.oid
     IN IF ~req.hasCart \/ storeFails \/ ~CartProductsExist(req.cart_items)
          THEN /\ resp' = Reply("update", 500, oid, "", req)
               /\ UNCHANGED <<orders, items>>
        ELSE /\ orders' = [orders EXCEPT ![oid] = UpdatedOrderRow(@, req)]
             /\ items' = [items EXCEPT ![oid] =
                            UpdatedItemRows(req.cart_items, put.existingItems)]
             /\ resp' = Reply("update", 200, oid, "Pending", req)
  /\ put' = NoPut
  /\ UNCHANGED <<sideVars, products, customers, tables, inventory, coupons, plans, now>>

(***************************************************************************)
(* Owner-side status routes.                                               *)
(***************************************************************************)
\* The status an owner-side order route sends before touching the order:
\* 401/403 from the middleware, 401 without a tenant, 403 for a foreign order.
OwnerOrderGate(tok, oid) ==
  IF OwnerAuth(tok) # 0 THEN OwnerAuth(tok)
  ELSE IF tok.businessId = 0 THEN 401
  ELSE IF oid \notin DOMAIN orders \/ orders[oid].businessId # tok.businessId THEN 403
  ELSE 0

\* PATCH /api/orders/:orderId/status: writes the caller's status.
PatchOrderStatus(tok, oid, status) ==
  /\ ~put.active
  /\ LET req == [NoReq EXCEPT !.tok = tok, !.oid = oid, !.status = status]
         gate == OwnerOrderGate(tok, oid)
     IN IF gate # 0
          THEN /\ resp' = Reply("patchStatus", gate, oid, "", req)
               /\ UNCHANGED orders
        ELSE /\ orders' = [orders EXCEPT ![oid].status = SetIfGiven(@, status)]
             /\ resp' = Reply("patchStatus", 200, oid, orders'[oid].status, req)
  /\ UNCHANGED <<sideVars, items, products, customers, tables, inventory, put,
                 coupons, plans, now>>

\* PUT /api/orders/:orderId/status (billing router): writes the caller's status.
BillOrderGate(tok, oid) ==
  IF OwnerAuth(tok) # 0 THEN OwnerAuth(tok)
  ELSE IF oid \notin DOMAIN orders \/ orders[oid].businessId # tok.businessId THEN 403
  ELSE 0

BillOrderStatus(tok, oid, status) ==
  /\ ~put.active
  /\ LET req == [NoReq EXCEPT !.tok = tok, !.oid = oid, !.status = status]
         gate == BillOrderGate(tok, oid)
     IN IF gate # 0
          THEN /\ resp' = Reply("billStatus", gate, oid, "", req)
               /\ UNCHANGED orders
        ELSE /\ orders' = [orders EXCEPT ![oid].status = SetIfGiven(@, status)]
             /\ resp' = Reply("billStatus", 200, oid, orders'[oid].status, req)
  /\ UNCHANGED <<sideVars, items, products, customers, tables, inventory, put,
                 coupons, plans, now>>

\* orderItem.updateMany({orderId, productId}, {status})
WithItemStatus(its, pid, status) ==
  [i \in 1..Len(its) |->
     IF its[i].productId = pid
       THEN [its[i] EXCEPT !.status = SetIfGiven(@, status)]
       ELSE its[i]]

\* PATCH /api/orders/:orderId/items/:productId/status
UpdateItemStatus(tok, oid, pid, status) ==
  /\ ~put.active
  /\ LET req == [NoReq EXCEPT !.tok = tok, !.oid = oid, !.productId = pid,
                              !.status = status]
         gate == OwnerOrderGate(tok, oid)
     IN IF gate # 0
          THEN /\ resp' = Reply("itemStatus", gate, oid, "", req)
               /\ UNCHANGED <<orders, items>>
        ELSE IF ~(\E i \in 1..Len(items[oid]) : items[oid][i].productId = pid)
          THEN /\ resp' = Reply("itemStatus", 404, oid, "", req)
               /\ UNCHANGED <<orders, items>>
        ELSE /\ items' = [items EXCEPT ![oid] = WithItemStatus(@, pid, status)]
             /\ orders' = [orders EXCEPT ![oid].status = DerivedStatus(items'[oid])]
             /\ resp' = Reply("itemStatus", 200, oid, DerivedStatus(items'[oid]), req)
  /\ UNCHANGED <<sideVars, products, customers, tables, inventory, put,
                 coupons, plans, now>>

\* orderItem.updateMany({orderId}, {status: "Completed"})
CompletedItems(its) ==
  [i \in 1..Len(its) |-> [its[i] EXCEPT !.status = "Completed"]]

\* PATCH /api/orders/:orderId/complete-all: the order is written "Completed".
CompleteAll(tok, oid) ==
  /\ ~put.active
  /\ LET req == [NoReq EXCEPT !.tok = tok, !.oid = oid]
         gate == OwnerOrderGate(tok, oid)
     IN IF gate # 0
          THEN /\ resp' = Reply("completeAll", gate, oid, "", req)
               /\ UNCHANGED <<orders, items>>
        ELSE /\ items' = [items EXCEPT ![oid] = CompletedItems(@)]
             /\ orders' = [orders EXCEPT ![oid].status = "Completed"]
             /\ resp' = Reply("completeAll", 200, oid, "Completed", req)
  /\ UNCHANGED <<sideVars, products, customers, tables, inventory, put,
                 coupons, plans, now>>

(***************************************************************************)
(* Reads of orders: the status returned is derived from the items.         *)
(***************************************************************************)
\* GET /api/orders/:orderId
GetOrder(oid) ==
  /\ ~put.active
  /\ LET req == [NoReq EXCEPT !.oid = oid]
     IN IF oid \notin DOMAIN orders
          THEN resp' = Reply("getOrder", 404, oid, "", req)
          ELSE resp' = Reply("getOrder", 200, oid, DerivedStatus(items[oid]), req)
  /\ UNCHANGED <<sideVars, orders, items, products, customers, tables, inventory, put,
                 coupons, plans, now>>

\* The tenant's orders, newest first, each with its derived status.
RECURSIVE FormattedOrders(_, _)
FormattedOrders(b, n) ==
  IF n = 0 THEN <<>>
  ELSE IF orders[n].businessId = b
    THEN <<[key |-> n, status |-> DerivedStatus(items[n])]>> \o FormattedOrders(b, n - 1)
  ELSE FormattedOrders(b, n - 1)

\* GET /api/orders (no date filter)
ListOrders(tok) ==
  /\ ~put.active
  /\ LET req == [NoReq EXCEPT !.tok = tok]
     IN IF OwnerAuth(tok) # 0
          THEN resp' = ReplyList("listOrders", OwnerAuth(tok), <<>>, req)
        ELSE IF tok.businessId = 0
          THEN resp' = ReplyList("listOrders", 401, <<>>, req)
        ELSE resp' = ReplyList("listOrders", 200,
                               FormattedOrders(tok.businessId, Len(orders)), req)
  /\ UNCHANGED <<sideVars, orders, items, products, customers, tables, inventory, put,
                 coupons, plans, now>>

(***************************************************************************)
(* Product routes (food router): update, and delete with its cascade.      *)
(***************************************************************************)
\* PUT /api/food/:id
UpdateProduct(pid, price, name) ==
  /\ ~put.active
  /\ LET req == [NoReq EXCEPT !.productId = pid]
     IN IF ~products[pid].exists
          THEN /\ resp' = Reply("updateProduct", 400, 0, "", req)
               /\ UNCHANGED products
        ELSE /\ products' = [products EXCEPT
                               ![pid].price = IF price = 0 THEN @ ELSE price,
                               ![pid].name = SetIfGiven(@, name)]
             /\ resp' = Reply("updateProduct", 200, 0, "", req)
  /\ UNCHANGED <<sideVars, orders, items, customers, tables, inventory, put,
                 coupons, plans, now>>

\* order_items_productId_fkey ... ON DELETE CASCADE
WithoutProduct(its, pid) == SelectSeq(its, LAMBDA it : it.productId # pid)

\* DELETE /api/food/:id
DeleteProduct(pid) ==
  /\ ~put.active
  /\ LET req == [NoReq EXCEPT !.productId = pid]
     IN IF ~products[pid].exists
          THEN /\ resp' = Reply("deleteProduct", 400, 0, "", req)
               /\ UNCHANGED <<products, items>>
        ELSE /\ products' = [products EXCEPT ![pid].exists = FALSE]
             /\ items' = [o \in DOMAIN items |-> WithoutProduct(items[o], pid)]
             /\ resp' = Reply("deleteProduct", 200, 0, "", req)
  /\ UNCHANGED <<sideVars, orders, customers, tables, inventory, put,
                 coupons, plans, now>>

(***************************************************************************)
(* Tables: registration and the availability view.                         *)
(***************************************************************************)
\* The ids of the rows with the unique key (tableNumber, businessId).
TableIds(tbls, b, t) ==
  {i \in DOMAIN tbls : tbls[i].businessId = b /\ tbls[i].tableNumber = t}

\* A plausible slip: a plain create where the upsert should be.
CreateTable(tbls, b, t) ==
  Append(tbls, [businessId |-> b, tableNumber |-> t])

\* table.upsert({where: {tableNumber_businessId}, update: {}, create: {...}})
UpsertTable(tbls, b, t) ==
  IF TableIds(tbls, b, t) # {}
    THEN tbls
    ELSE Append(tbls, [businessId |-> b, tableNumber |-> t])

\* POST /api/tables: upsert by (tableNumber, businessId); answers the row.
RegisterTable(b, t) ==
  /\ ~put.active
  /\ LET req == [NoReq EXCEPT !.businessId = b, !.table_number = t]
     IN IF b = 0 \/ t = 0
          THEN /\ resp' = Reply("registerTable", 400, 0, "", req)
               /\ UNCHANGED tables
        ELSE /\ tables' = UpsertTable(tables, b, t)
             /\ resp' = Reply("registerTable", 200,
                              CHOOSE i \in TableIds(tables', b, t) :
                                 \A j \in TableIds(tables', b, t) : i <= j,
                              "", req)
  /\ UNCHANGED <<sideVars, orders, items, products, customers, inventory, put,
                 coupons, plans, now>>

RECURSIVE SortAsc(_)
SortAsc(S) ==
  IF S = {} THEN <<>>
  ELSE LET m == CHOOSE x \in S : \A y \in S : x <= y
       IN <<m>> \o SortAsc(S \ {m})

\* A plausible slip: the tenant filter is left out of the order query.
ActiveOrdersAnyTenant(b) ==
  {o \in DOMAIN orders : orders[o].status # "Completed"}

\* order.findMany({businessId, status: {not: "Completed"}})
ActiveOrders(b) ==
  {o \in DOMAIN orders : orders[o].businessId = b /\ orders[o].status # "Completed"}

BookedTableNumbers(b) == {orders[o].tableNumber : o \in ActiveOrders(b)}

TablesWithStatus(b) ==
  LET all == SortAsc({tables[i].tableNumber :
                        i \in {j \in DOMAIN tables : tables[j].businessId = b}})
  IN [i \in 1..Len(all) |->
        [key |-> all[i],
         status |-> IF all[i] \in BookedTableNumbers(b) THEN "Booked" ELSE "Available"]]

\* GET /api/tables/:businessId
GetTables(b) ==
  /\ ~put.active
  /\ resp' = ReplyList("getTables", 200, TablesWithStatus(b),
                       [NoReq EXCEPT !.businessId = b])
  /\ UNCHANGED <<sideVars, orders, items, products, customers, tables, inventory, put,
                 coupons, plans, now>>

(***************************************************************************)
(* Inventory routes and the customer profile route.                        *)
(***************************************************************************)
\* role?.toLowerCase() || ""
LowerRole(role) ==
  CASE role \in {"Owner", "owner"} -> "owner"
    [] role \in {"SuperAdmin", "superadmin"} -> "superadmin"
    [] role \in {"Manager", "manager"} -> "manager"
    [] role \in {"Staff", "staff"} -> "staff"
    [] OTHER -> ""

isRoleAllowed(role, allowedRoles) == LowerRole(role) \in allowedRoles

\* The status an inventory write route sends before touching the store:
\* 401/403 from the middleware, 403 for a role that may not write stock.
InventoryGate(tok) ==
  IF OwnerAuth(tok) # 0 THEN OwnerAuth(tok)
  ELSE IF ~isRoleAllowed(tok.role, {"owner", "manager", "staff"}) THEN 403
  ELSE 0

\* PUT /api/inventory/:id: inventoryItem.update({where: {id}}).
UpdateInventory(tok, id, quantity) ==
  /\ ~put.active
  /\ LET req == [NoReq EXCEPT !.tok = tok, !.oid = id]
     IN IF InventoryGate(tok) # 0
          THEN /\ resp' = Reply("updateInventory", InventoryGate(tok), id, "", req)
               /\ UNCHANGED inventory
        ELSE IF id \notin DOMAIN inventory
          THEN /\ resp' = Reply("updateInventory", 500, id, "", req)
               /\ UNCHANGED inventory
        ELSE /\ inventory' = [inventory EXCEPT ![id].quantity = quantity]
             /\ resp' = Reply("updateInventory", 200, id, "", req)
  /\ UNCHANGED <<sideVars, orders, items, products, customers, tables, coupons, plans, now, put>>

\* DELETE /api/inventory/:id: inventoryItem.delete({where: {id}}).
DeleteInventory(tok, id) ==
  /\ ~put.active
  /\ LET req == [NoReq EXCEPT !.tok = tok, !.oid = id]
     IN IF InventoryGate(tok) # 0
          THEN /\ resp' = Reply("deleteInventory", InventoryGate(tok), id, "", req)
               /\ UNCHANGED inventory
        ELSE IF id \notin DOMAIN inventory
          THEN /\ resp' = Reply("deleteInventory", 500, id, "", req)
               /\ UNCHANGED inventory
        ELSE /\ inventory' = [r \in DOMAIN inventory \ {id} |-> inventory[r]]
             /\ resp' = Reply("deleteInventory", 204, id, "", req)
  /\ UNCHANGED <<sideVars, orders, items, products, customers, tables, coupons, plans, now, put>>

\* PUT /api/customers/customer/:id: customer.update({where: {id}}) behind
\* authenticateCustomerJWT, which has the owner middleware's checks.
UpdateCustomer(tok, id, name) ==
  /\ ~put.active
  /\ LET req == [NoReq EXCEPT !.tok = tok, !.oid = id]
     IN IF OwnerAuth(tok) # 0
          THEN /\ resp' = Reply("updateCustomer", OwnerAuth(tok), id, "", req)
               /\ UNCHANGED customers
        ELSE IF id \notin DOMAIN customers
          THEN /\ resp' = Reply("updateCustomer", 500, id, "", req)
               /\ UNCHANGED customers
        ELSE /\ customers' = [customers EXCEPT ![id].name = SetIfGiven(@, name)]
             /\ resp' = Reply("updateCustomer", 200, id, "", req)
  /\ UNCHANGED <<sideVars, orders, items, products, tables, inventory, coupons, plans, now, put>>

(***************************************************************************)
(* The clock.                                                              *)
(***************************************************************************)
MaxNow == 6

\* Time passes between two requests; new Date() is read once per request.
Tick(d) ==
  /\ ~put.active
  /\ now + d <= MaxNow
  /\ now' = now + d
  /\ resp' = NoResp
  /\ UNCHANGED <<sideVars, orders, items, products, customers, tables, inventory, coupons,
                 plans, put>>

(***************************************************************************)
(* Coupons.  A code is a sequence of letters.  Amounts of the discount are *)
(* kept in hundredths of the currency unit, so that (value / 100) * total  *)
(* is the integer value * total.                                           *)
(***************************************************************************)
UpperLetter(c) ==
  CASE c = "a" -> "A"
    [] c = "b" -> "B"
    [] OTHER -> c

\* A plausible slip: the code is looked up as it was sent.
codeAsSent(code) == code

\* code.toUpperCase()
toUpperCase(code) == [i \in DOMAIN code |-> UpperLetter(code[i])]

\* maxDiscount in a request body: absent, a JSON number, or a JSON string of
\* digits.  Every non-empty string is truthy, "0" included.
NoCap == [kind |-> "absent", value |-> 0]
NumberCap(v) == [kind |-> "number", value |-> v]
TextCap(v) == [kind |-> "text", value |-> v]

Truthy(m) == m.kind = "text" \/ (m.kind = "number" /\ m.value # 0)

CouponBody(code, type, value, cap, min, from, till) ==
  [code |-> code, discountType |-> type, discountValue |-> value,
   maxDiscount |-> cap, minOrderValue |-> min, validFrom |-> from,
   validTill |-> till]

\* The columns coupon.create and coupon.update write from a body;
\* maxDiscount ? parseFloat(maxDiscount) : null
CouponRow(body, b) ==
  [code |-> toUpperCase(body.code), businessId |-> b,
   discountType |-> body.discountType, discountValue |-> body.discountValue,
   hasCap |-> Truthy(body.maxDiscount),
   maxDiscount |-> IF Truthy(body.maxDiscount) THEN body.maxDiscount.value ELSE 0,
   minOrderValue |-> body.minOrderValue, validFrom |-> body.validFrom,
   validTill |-> body.validTill]

\* Coupon_code_key: the rows, other than row id, that hold the code.
CodeTaken(code, id) ==
  \E i \in DOMAIN coupons : i # id /\ coupons[i].code = code

\* POST /api/coupons/create
CreateCoupon(tok, body) ==
  /\ ~put.active
  /\ LET req == [NoReq EXCEPT !.tok = tok, !.code = body.code]
     IN IF OwnerAuth(tok) # 0
          THEN /\ resp' = Reply("createCoupon", OwnerAuth(tok), 0, "", req)
               /\ UNCHANGED coupons
        ELSE IF tok.businessId = 0 \/ tok.role \notin {"owner", "manager", "admin, staff"}
          THEN /\ resp' = Reply("createCoupon", 403, 0, "", req)
               /\ UNCHANGED coupons
        ELSE IF body.code = <<>> \/ body.discountType = ""
          THEN /\ resp' = Reply("createCoupon", 400, 0, "", req)
               /\ UNCHANGED coupons
        ELSE IF CodeTaken(toUpperCase(body.code), 0)
          THEN /\ resp' = Reply("createCoupon", 500, 0, "", req)
               /\ UNCHANGED coupons
        ELSE /\ coupons' = Append(coupons, CouponRow(body, tok.businessId))
             /\ resp' = Reply("createCoupon", 201, Len(coupons) + 1, "", req)
  /\ UNCHANGED <<sideVars, orders, items, products, customers, tables, inventory, plans, now,
                 put>>

\* PUT /api/coupons/:id
UpdateCoupon(tok, id, body) ==
  /\ ~put.active
  /\ LET req == [NoReq EXCEPT !.tok = tok, !.oid = id, !.code = body.code]
     IN IF OwnerAuth(tok) # 0
          THEN /\ resp' = Reply("updateCoupon", OwnerAuth(tok), id, "", req)
               /\ UNCHANGED coupons
        ELSE IF tok.businessId = 0
                  \/ tok.role \notin {"owner", "manager", "admin", "staff"}
          THEN /\ resp' = Reply("updateCoupon", 403, id, "", req)
               /\ UNCHANGED coupons
        ELSE IF id \notin DOMAIN coupons \/ coupons[id].businessId # tok.businessId
          THEN /\ resp' = Reply("updateCoupon", 404, id, "", req)
               /\ UNCHANGED coupons
        ELSE IF CodeTaken(toUpperCase(body.code), id)
          THEN /\ resp' = Reply("updateCoupon", 500, id, "", req)
               /\ UNCHANGED coupons
        ELSE /\ coupons' = [coupons EXCEPT ![id] = CouponRow(body, @.businessId)]
             /\ resp' = Reply("updateCoupon", 200, id, "", req)
  /\ UNCHANGED <<sideVars, orders, items, products, customers, tables, inventory, plans, now,
                 put>>

\* coupon.findFirst({code, businessId, validFrom <= now, validTill >= now})
FindCoupon(code, b) ==
  {i \in DOMAIN coupons :
     /\ coupons[i].code = toUpperCase(code)
     /\ coupons[i].businessId = b
     /\ coupons[i].validFrom <= now
     /\ coupons[i].validTill >= now}

\* The discount of an accepted coupon, in hundredths.
Discount(coupon, orderTotal) ==
  IF coupon.discountType = "flat" THEN coupon.discountValue * 100
  ELSE IF coupon.discountType = "percent"
    THEN IF /\ coupon.hasCap /\ coupon.maxDiscount # 0
            /\ coupon.discountValue * orderTotal > coupon.maxDiscount * 100
           THEN coupon.maxDiscount * 100
           ELSE coupon.discountValue * orderTotal
  ELSE 0

\* POST /api/coupons/validate
ValidateCoupon(tok, code, orderTotal) ==
  /\ ~put.active
  /\ LET req == [NoReq EXCEPT !.tok = tok, !.code = code, !.orderTotal = orderTotal]
         found == FindCoupon(code, tok.businessId)
         id == CHOOSE i \in found : \A j \in found : i <= j
     IN IF OwnerAuth(tok) # 0
          THEN resp' = Reply("validateCoupon", OwnerAuth(tok), 0, "", req)
        ELSE IF code = <<>> \/ orderTotal = 0
          THEN resp' = Reply("validateCoupon", 400, 0, "", req)
        ELSE IF found = {}
          THEN resp' = Reply("validateCoupon", 404, 0, "", req)
        ELSE IF orderTotal < coupons[id].minOrderValue
          THEN resp' = Reply("validateCoupon", 400, 0, "", req)
        ELSE resp' = ReplyDiscount("validateCoupon", 200, id,
                                   Discount(coupons[id], orderTotal), req)
  /\ UNCHANGED <<sideVars, orders, items, products, customers, tables, inventory, coupons,
                 plans, now, put>>

(***************************************************************************)
(* Subscription plans.  Time is counted in days.                           *)
(***************************************************************************)
TrialDays == 5
MonthDays == 30
YearDays == 365
LoginTrialDays == 30

\* The token the SuperAdmin bypass of login signs.
SuperAdminToken ==
  [kind |-> "signed", id |-> 0, customerId |-> 0, userId |-> 1,
   businessId |-> 1, role |-> "SuperAdmin"]

mapFrontendToBackendStatus(frontendStatus) ==
  CASE frontendStatus = "verified" -> "active"
    [] frontendStatus = "unverified" -> "expired"
    [] OTHER -> "pending"

\* name?.toLowerCase() === "trial" || name === "Free Trial"
IsTrialName(name) == name \in {"trial", "Trial", "TRIAL", "Free Trial"}

\* name?.toLowerCase().includes("monthly")
IsMonthlyName(name) == name \in {"monthly", "Gold Monthly", "MONTHLY"}

\* name?.toLowerCase().includes("annual") || ...includes("yearly")
IsYearlyName(name) == name \in {"annual", "Gold Annual", "yearly", "Gold Yearly"}

\* The expiry an upsert stores, from the plan name and the expiry sent.
UpsertExpiresAt(name, expiresAt) ==
  IF IsTrialName(name) THEN now + TrialDays
  ELSE IF IsMonthlyName(name) THEN now + MonthDays
  ELSE IF IsYearlyName(name) THEN now + YearDays
  ELSE IF expiresAt = 0 THEN now + MonthDays
  ELSE expiresAt

\* A plausible slip: the comparison with the clock is turned around.
DoubleVerifiedInverted(plan) ==
  plan.exists /\ plan.status = "active" /\ plan.expiresAt < now

\* existingPlan && status === "active" && expiresAt && expiresAt > now
DoubleVerified(plan) ==
  plan.exists /\ plan.status = "active" /\ plan.expiresAt > now

\* The status read routes answer, and store when it differs: an active plan
\* past its expiry is expired.
LazyStatus(plan) ==
  IF plan.expiresAt < now /\ plan.status = "active" THEN "expired" ELSE plan.status

\* GET /api/subscription/status/:businessId
GetSubscriptionStatus(tok, b) ==
  /\ ~put.active
  /\ LET req == [NoReq EXCEPT !.tok = tok, !.businessId = b]
     IN IF OwnerAuth(tok) # 0
          THEN /\ resp' = Reply("subscriptionStatus", OwnerAuth(tok), b, "", req)
               /\ UNCHANGED plans
        ELSE IF ~plans[b].exists
          THEN /\ resp' = Reply("subscriptionStatus", 404, b, "", req)
               /\ UNCHANGED plans
        ELSE /\ plans' = [plans EXCEPT ![b].status = LazyStatus(plans[b])]
             /\ resp' = Reply("subscriptionStatus", 200, b, LazyStatus(plans[b]), req)
  /\ UNCHANGED <<sideVars, orders, items, products, customers, tables, inventory, coupons, now,
                 put>>

\* GET /api/plan
GetPlan(tok) ==
  /\ ~put.active
  /\ LET req == [NoReq EXCEPT !.tok = tok, !.businessId = tok.businessId]
         b == tok.businessId
     IN IF OwnerAuth(tok) # 0
          THEN /\ resp' = Reply("getPlan", OwnerAuth(tok), b, "", req)
               /\ UNCHANGED plans
        ELSE IF b = 0
          THEN /\ resp' = Reply("getPlan", 401, b, "", req)
               /\ UNCHANGED plans
        ELSE IF ~plans[b].exists
          THEN /\ resp' = Reply("getPlan", 404, b, "", req)
               /\ UNCHANGED plans
        ELSE /\ plans' = [plans EXCEPT ![b].status = LazyStatus(plans[b])]
             /\ resp' = Reply("getPlan", 200, b, LazyStatus(plans[b]), req)
  /\ UNCHANGED <<sideVars, orders, items, products, customers, tables, inventory, coupons, now,
                 put>>

\* GET /api/auth/user: the profile of the token's user, with the plan row as
\* stored.  User b is the owner of business b.
GetUser(tok) ==
  /\ ~put.active
  /\ LET req == [NoReq EXCEPT !.tok = tok, !.businessId = tok.userId]
         b == tok.userId
     IN IF OwnerAuth(tok) # 0
          THEN resp' = Reply("getUser", OwnerAuth(tok), b, "", req)
        ELSE IF b \notin Businesses
          THEN resp' = Reply("getUser", 404, b, "", req)
        ELSE resp' = Reply("getUser", 200, b, plans[b].status, req)
  /\ UNCHANGED <<sideVars, orders, items, products, customers, tables, inventory, coupons,
                 plans, now, put>>

\* POST /api/auth/login of the owner of business b: a business without a plan
\* gets a Free Trial row, whose status is the column default.
Login(b, passwordMatches) ==
  /\ ~put.active
  /\ LET req == [NoReq EXCEPT !.businessId = b]
         created == [exists |-> TRUE, name |-> "Free Trial", status |-> "Pending",
                     expiresAt |-> now + LoginTrialDays]
     IN IF ~passwordMatches
          THEN /\ resp' = Reply("login", 400, b, "", req)
               /\ UNCHANGED plans
        ELSE IF ~plans[b].exists
          THEN /\ plans' = [plans EXCEPT ![b] = created]
               /\ resp' = Reply("login", 200, b, created.status, req)
        ELSE /\ resp' = Reply("login", 200, b, plans[b].status, req)
             /\ UNCHANGED plans
  /\ UNCHANGED <<sideVars, orders, items, products, customers, tables, inventory, coupons, now,
                 put>>

\* status && [frontend statuses].includes(status) ? map(status) : status
UpsertStatus(status) ==
  IF status \in {"verified", "unverified", "pending"}
    THEN mapFrontendToBackendStatus(status)
    ELSE status

\* The row plan.upsert leaves: on update an absent name or status keeps the
\* column, on create an absent status takes the column default.
UpsertedPlan(plan, name, expiresAt, status) ==
  LET storedName == IF IsTrialName(name) THEN "Free Trial" ELSE name
  IN IF plan.exists
       THEN [plan EXCEPT !.name = SetIfGiven(@, storedName),
                         !.status = SetIfGiven(@, UpsertStatus(status)),
                         !.expiresAt = UpsertExpiresAt(name, expiresAt)]
       ELSE [exists |-> TRUE, name |-> storedName,
             status |-> SetIfGiven("Pending", UpsertStatus(status)),
             expiresAt |-> UpsertExpiresAt(name, expiresAt)]

\* POST /api/plan
UpsertPlan(tok, name, expiresAt, status) ==
  /\ ~put.active
  /\ LET req == [NoReq EXCEPT !.tok = tok, !.businessId = tok.businessId,
                              !.name = name, !.expiresAt = expiresAt,
                              !.status = status]
         b == tok.businessId
     IN IF OwnerAuth(tok) # 0
          THEN /\ resp' = Reply("upsertPlan", OwnerAuth(tok), b, "", req)
               /\ UNCHANGED plans
        ELSE IF b = 0
          THEN /\ resp' = Reply("upsertPlan", 400, b, "", req)
               /\ UNCHANGED plans
        ELSE IF DoubleVerified(plans[b])
          THEN /\ resp' = Reply("upsertPlan", 400, b, "", req)
               /\ UNCHANGED plans
        ELSE IF ~plans[b].exists /\ name = ""
          THEN /\ resp' = Reply("upsertPlan", 500, b, "", req)
               /\ UNCHANGED plans
        ELSE /\ plans' = [plans EXCEPT
                            ![b] = UpsertedPlan(@, name, expiresAt, status)]
             /\ resp' = Reply("upsertPlan", 200, b,
                              UpsertedPlan(plans[b], name, expiresAt, status).status,
                              req)
  /\ UNCHANGED <<sideVars, orders, items, products, customers, tables, inventory, coupons, now,
                 put>>

\* PATCH /api/plan/:businessId/status
UpdatePlanStatus(tok, b, status) ==
  /\ ~put.active
  /\ LET req == [NoReq EXCEPT !.tok = tok, !.businessId = b, !.status = status]
         st == IF status \in {"verified", "unverified", "pending"}
                 THEN mapFrontendToBackendStatus(status)
                 ELSE status
     IN IF OwnerAuth(tok) # 0
          THEN /\ resp' = Reply("planStatus", OwnerAuth(tok), b, "", req)
               /\ UNCHANGED plans
        ELSE IF tok.role # "SuperAdmin" /\ tok.businessId # b
          THEN /\ resp' = Reply("planStatus", 403, b, "", req)
               /\ UNCHANGED plans
        ELSE IF st \notin {"pending", "active", "expired", "cancelled"}
          THEN /\ resp' = Reply("planStatus", 400, b, "", req)
               /\ UNCHANGED plans
        ELSE IF ~plans[b].exists
          THEN /\ resp' = Reply("planStatus", 404, b, "", req)
               /\ UNCHANGED plans
        ELSE IF plans[b].status = "active" /\ st = "active"
          THEN /\ resp' = Reply("planStatus", 400, b, "", req)
               /\ UNCHANGED plans
        ELSE /\ plans' = [plans EXCEPT ![b].status = st]
             /\ resp' = Reply("planStatus", 200, b, st, req)
  /\ UNCHANGED <<sideVars, orders, items, products, customers, tables, inventory, coupons, now,
                 put>>

(***************************************************************************)
(* GET /api/orders/:orderId followed await by await.  The handler has no   *)
(* try/catch: when findUnique rejects, the promise the handler returned    *)
(* rejects.  A router that awaits handler promises passes the error to the *)
(* error middleware; a router that only catches synchronous throws never   *)
(* learns of it and nothing writes to the response.                        *)
(***************************************************************************)
GetOrderArrive(p, oid, storeFails) ==
  /\ Free(p)
  /\ calls' = [calls EXCEPT ![p] =
                 Arrived("getOrder", [NoReq EXCEPT !.oid = oid,
                                                   !.storeFails = storeFails])]
  /\ resp' = NoResp
  /\ UNCHANGED <<storeVars, otpRequestTimes, passwordResets, owners, business,
                 verifiedEmails>>

GetOrderHandler(p, forwarded) ==
  /\ calls[p].pc = "handler" /\ calls[p].op = "getOrder"
  /\ LET req == calls[p].req
     IN IF req.storeFails
          THEN /\ calls' = [calls EXCEPT ![p].pc =
                              IF forwarded THEN "errorHandler" ELSE "dropped"]
               /\ resp' = NoResp
        ELSE IF req.oid \notin DOMAIN orders
          THEN /\ calls' = [calls EXCEPT ![p] = Answered(@, 404)]
               /\ resp' = Reply("getOrder", 404, req.oid, "", req)
        ELSE /\ calls' = [calls EXCEPT ![p] = Answered(@, 200)]
             /\ resp' = Reply("getOrder", 200, req.oid,
                              DerivedStatus(items[req.oid]), req)
  /\ UNCHANGED <<storeVars, otpRequestTimes, passwordResets, owners, business,
                 verifiedEmails>>

\* app.use((err, req, res, next) => res.status(500).json(...))
ErrorHandler(p) ==
  /\ calls[p].pc = "errorHandler"
  /\ calls' = [calls EXCEPT ![p] = Answered(@, 500)]
  /\ resp' = Reply(calls[p].op, 500, 0, "", calls[p].req)
  /\ UNCHANGED <<storeVars, otpRequestTimes, passwordResets, owners, business,
                 verifiedEmails>>

(***************************************************************************)
(* Password reset.  POST /api/password-reset is followed await by await:   *)
(* the limiter check runs before the first await, the limiter record after *)
(* the last.  The clock counts ten-minute ticks here.                      *)
(***************************************************************************)
OTP_REQUEST_LIMIT == 5
OTP_WINDOW == 6
OtpLifetime == 1

Otps == {"111111", "222222"}

\* times.filter((t) => t > Date.now() - OTP_WINDOW_MS)
cleanOldRequests(times) == SelectSeq(times, LAMBDA t : t > now - OTP_WINDOW)

\* otpRequestTimes[email].length >= OTP_REQUEST_LIMIT
LimitReached(times) == Len(times) >= OTP_REQUEST_LIMIT

\* passwordReset.deleteMany({ where: { email } })
WithoutEmail(rows, email) == SelectSeq(rows, LAMBDA r : r.email # email)

\* The handler up to its first await: body check, limiter check, OTP drawn.
SendOtpStart(p, email, otp) ==
  /\ Free(p)
  /\ LET e == toLowerCase(email)
         req == [NoReq EXCEPT !.email = e, !.otp = otp,
                              !.expiresAt = now + OtpLifetime]
     IN IF email = ""
          THEN /\ calls' = [calls EXCEPT ![p] = Answered(Arrived("sendOtp", req), 400)]
               /\ resp' = Reply("sendOtp", 400, 0, "", req)
               /\ UNCHANGED otpRequestTimes
        ELSE /\ otpRequestTimes' =
                  [otpRequestTimes EXCEPT ![e] = cleanOldRequests(@)]
             /\ IF LimitReached(cleanOldRequests(otpRequestTimes[e]))
                  THEN /\ calls' = [calls EXCEPT
                                      ![p] = Answered(Arrived("sendOtp", req), 429)]
                       /\ resp' = Reply("sendOtp", 429, 0, "", req)
                  ELSE /\ calls' = [calls EXCEPT
                                      ![p] = [Arrived("sendOtp", req) EXCEPT
                                                !.pc = "deleteMany"]]
                       /\ resp' = NoResp
  /\ UNCHANGED <<storeVars, passwordResets, owners, business, verifiedEmails>>

\* await prisma.passwordReset.deleteMany({ where: { email } })
SendOtpDeleteMany(p, storeFails) ==
  /\ calls[p].pc = "deleteMany" /\ calls[p].op = "sendOtp"
  /\ IF storeFails
       THEN /\ calls' = [calls EXCEPT ![p] = Answered(@, 500)]
            /\ resp' = Reply("sendOtp", 500, 0, "", calls[p].req)
            /\ UNCHANGED passwordResets
       ELSE /\ passwordResets' = WithoutEmail(passwordResets, calls[p].req.email)
            /\ calls' = [calls EXCEPT ![p].pc = "create"]
            /\ resp' = NoResp
  /\ UNCHANGED <<storeVars, otpRequestTimes, owners, business, verifiedEmails>>

\* await prisma.passwordReset.create({ data: { email, otp, expiresAt } })
SendOtpCreate(p) ==
  /\ calls[p].pc = "create" /\ calls[p].op = "sendOtp"
  /\ passwordResets' =
       Append(passwordResets, [email |-> calls[p].req.email, otp |-> calls[p].req.otp,
                               expiresAt |-> calls[p].req.expiresAt])
  /\ calls' = [calls EXCEPT ![p].pc = "sendMail"]
  /\ resp' = NoResp
  /\ UNCHANGED <<storeVars, otpRequestTimes, owners, business, verifiedEmails>>

\* await transporter.sendMail(...); then the limiter record and the 200.
SendOtpMail(p, mailFails) ==
  /\ calls[p].pc = "sendMail" /\ calls[p].op = "sendOtp"
  /\ IF mailFails
       THEN /\ calls' = [calls EXCEPT ![p] = Answered(@, 500)]
            /\ resp' = Reply("sendOtp", 500, 0, "", calls[p].req)
            /\ UNCHANGED otpRequestTimes
       ELSE /\ otpRequestTimes' =
                 [otpRequestTimes EXCEPT ![calls[p].req.email] = Append(@, now)]
            /\ calls' = [calls EXCEPT ![p] = Answered(@, 200)]
            /\ resp' = Reply("sendOtp", 200, 0, "", calls[p].req)
  /\ UNCHANGED <<storeVars, passwordResets, owners, business, verifiedEmails>>

\* passwordReset.findFirst({ where: { email, otp, expiresAt: { gte: now } } })
OtpRecordFound(email, otp) ==
  \E i \in DOMAIN passwordResets :
     /\ passwordResets[i].email = email
     /\ passwordResets[i].otp = otp
     /\ passwordResets[i].expiresAt >= now

\* POST /api/password-reset/verify
VerifyOtp(email, otp, storeFails) ==
  /\ LET e == toLowerCase(email)
         req == [NoReq EXCEPT !.email = e, !.otp = otp, !.storeFails = storeFails]
     IN IF email = "" \/ otp = ""
          THEN /\ resp' = Reply("verifyOtp", 400, 0, "", req)
               /\ UNCHANGED verifiedEmails
        ELSE IF storeFails
          THEN /\ resp' = Reply("verifyOtp", 500, 0, "", req)
               /\ UNCHANGED verifiedEmails
        ELSE IF ~OtpRecordFound(e, otp)
          THEN /\ resp' = Reply("verifyOtp", 400, 0, "", req)
               /\ UNCHANGED verifiedEmails
        ELSE /\ resp' = Reply("verifyOtp", 200, 0, "", req)
             /\ verifiedEmails' = verifiedEmails \cup {e}
  /\ UNCHANGED <<storeVars, calls, otpRequestTimes, passwordResets, owners, business>>

\* The ids of the rows with the unique key email.
OwnerIds(email) ==
  {u \in DOMAIN owners : owners[u].exists /\ owners[u].email = email}

\* POST /api/password-reset/change
ChangePassword(email, newPassword, storeFails) ==
  /\ LET e == toLowerCase(email)
         req == [NoReq EXCEPT !.email = e, !.newPassword = newPassword,
                              !.storeFails = storeFails]
     IN IF email = "" \/ newPassword = ""
          THEN /\ resp' = Reply("changePassword", 400, 0, "", req)
               /\ UNCHANGED <<owners, passwordResets>>
        ELSE IF storeFails
          THEN /\ resp' = Reply("changePassword", 500, 0, "", req)
               /\ UNCHANGED <<owners, passwordResets>>
        ELSE IF OwnerIds(e) = {}
          THEN /\ resp' = Reply("changePassword", 404, 0, "", req)
               /\ UNCHANGED <<owners, passwordResets>>
        ELSE /\ owners' = [u \in DOMAIN owners |->
                             IF u \in OwnerIds(e)
                               THEN [owners[u] EXCEPT !.password = newPassword]
                               ELSE owners[u]]
             /\ passwordResets' = WithoutEmail(passwordResets, e)
             /\ resp' = Reply("changePassword", 200, 0, "", req)
  /\ UNCHANGED <<storeVars, calls, otpRequestTimes, business, verifiedEmails>>

(***************************************************************************)
(* Business profile: POST /api/business (create or update) and             *)
(* PUT /api/business/:id, followed await by await.                         *)
(***************************************************************************)
\* The token owner login signs for a user row: {userId, email, businessId, role}.
LoginToken(u) ==
  [kind |-> "signed", id |-> 0, customerId |-> 0, userId |-> u,
   businessId |-> owners[u].businessId, role |-> owners[u].role]

\* prisma.businessOwner.findUnique({ where: { id: userId } }): 0 when null.
FoundOwner(u) == IF u \in DOMAIN owners /\ owners[u].exists THEN u ELSE 0

\* POST /business up to its first await: the middleware and the body checks.
PostBusinessStart(p, tok, name, hasLogo) ==
  /\ Free(p)
  /\ LET req == [NoReq EXCEPT !.tok = tok, !.name = name, !.hasCart = hasLogo,
                              !.userId = tok.userId]
         code == IF OwnerAuth(tok) # 0 THEN OwnerAuth(tok)
                 ELSE IF tok.userId = 0 THEN 401
                 ELSE IF name = "" \/ ~hasLogo THEN 400
                 ELSE 0
     IN IF code # 0
          THEN /\ calls' = [calls EXCEPT
                              ![p] = Answered(Arrived("postBusiness", req), code)]
               /\ resp' = Reply("postBusiness", code, 0, "", req)
          ELSE /\ calls' = [calls EXCEPT ![p] = Arrived("postBusiness", req)]
               /\ resp' = NoResp
  /\ UNCHANGED <<storeVars, otpRequestTimes, passwordResets, owners, business,
                 verifiedEmails>>

\* await businessOwner.findUnique; then the branch on businessId and the
\* edit-count check.  read keeps user.businessId for the update.
PostBusinessFindUser(p) ==
  /\ calls[p].pc = "handler" /\ calls[p].op = "postBusiness"
  /\ LET u == FoundOwner(calls[p].req.userId)
     IN IF u = 0
          THEN /\ calls' = [calls EXCEPT ![p] = Answered(@, 404)]
               /\ resp' = Reply("postBusiness", 404, 0, "", calls[p].req)
        ELSE IF owners[u].businessId = 0
          THEN /\ calls' = [calls EXCEPT ![p].pc = "createBusiness"]
               /\ resp' = NoResp
        ELSE IF owners[u].restaurantEditCount >= 1
          THEN /\ calls' = [calls EXCEPT ![p] = Answered(@, 403)]
               /\ resp' = Reply("postBusiness", 403, 0, "", calls[p].req)
        ELSE /\ calls' = [calls EXCEPT ![p].pc = "updateBusiness",
                                       ![p].read = owners[u].businessId]
             /\ resp' = NoResp
  /\ UNCHANGED <<storeVars, otpRequestTimes, passwordResets, owners, business,
                 verifiedEmails>>

\* await prisma.business.create(...)
PostBusinessCreate(p) ==
  /\ calls[p].pc = "createBusiness" /\ calls[p].op = "postBusiness"
  /\ business' = Append(business, [name |-> calls[p].req.name])
  /\ calls' = [calls EXCEPT ![p].pc = "linkOwner", ![p].read = Len(business) + 1]
  /\ resp' = NoResp
  /\ UNCHANGED <<storeVars, otpRequestTimes, passwordResets, owners, verifiedEmails>>

\* await businessOwner.update({ businessId: newBusiness.id, role: "owner" })
PostBusinessLink(p) ==
  /\ calls[p].pc = "linkOwner" /\ calls[p].op = "postBusiness"
  /\ LET u == FoundOwner(calls[p].req.userId)
     IN IF u = 0
          THEN /\ calls' = [calls EXCEPT ![p] = Answered(@, 500)]
               /\ resp' = Reply("postBusiness", 500, 0, "", calls[p].req)
               /\ UNCHANGED owners
          ELSE /\ owners' = [owners EXCEPT ![u].businessId = calls[p].read,
                                           ![u].role = "owner"]
               /\ calls' = [calls EXCEPT ![p] = Answered(@, 200)]
               /\ resp' = Reply("postBusiness", 200, 0, "", calls[p].req)
  /\ UNCHANGED <<storeVars, otpRequestTimes, passwordResets, business, verifiedEmails>>

\* PUT /business/:id up to its first await: the middleware.
PutBusinessStart(p, tok, id, name) ==
  /\ Free(p)
  /\ LET req == [NoReq EXCEPT !.tok = tok, !.name = name, !.businessId = id,
                              !.userId = tok.userId]
     IN IF OwnerAuth(tok) # 0
          THEN /\ calls' = [calls EXCEPT
                              ![p] = Answered(Arrived("putBusiness", req), OwnerAuth(tok))]
               /\ resp' = Reply("putBusiness", OwnerAuth(tok), 0, "", req)
          ELSE /\ calls' = [calls EXCEPT ![p] = Arrived("putBusiness", req)]
               /\ resp' = NoResp
  /\ UNCHANGED <<storeVars, otpRequestTimes, passwordResets, owners, business,
                 verifiedEmails>>

\* await businessOwner.findUnique; the tenant check and the edit-count check.
PutBusinessFindUser(p) ==
  /\ calls[p].pc = "handler" /\ calls[p].op = "putBusiness"
  /\ LET u == FoundOwner(calls[p].req.userId)
     IN IF u = 0 \/ owners[u].businessId # calls[p].req.businessId
          THEN /\ calls' = [calls EXCEPT ![p] = Answered(@, 403)]
               /\ resp' = Reply("putBusiness", 403, 0, "", calls[p].req)
        ELSE IF owners[u].restaurantEditCount >= 1
          THEN /\ calls' = [calls EXCEPT ![p] = Answered(@, 403)]
               /\ resp' = Reply("putBusiness", 403, 0, "", calls[p].req)
        ELSE /\ calls' = [calls EXCEPT ![p].pc = "findBusiness"]
             /\ resp' = NoResp
  /\ UNCHANGED <<storeVars, otpRequestTimes, passwordResets, owners, business,
                 verifiedEmails>>

\* await prisma.business.findUnique({ where: { id: businessId } })
PutBusinessFindBusiness(p) ==
  /\ calls[p].pc = "findBusiness" /\ calls[p].op = "putBusiness"
  /\ IF calls[p].req.businessId \notin DOMAIN business
       THEN /\ calls' = [calls EXCEPT ![p] = Answered(@, 404)]
            /\ resp' = Reply("putBusiness", 404, 0, "", calls[p].req)
       ELSE /\ calls' = [calls EXCEPT ![p].pc = "updateBusiness",
                                      ![p].read = calls[p].req.businessId]
            /\ resp' = NoResp
  /\ UNCHANGED <<storeVars, otpRequestTimes, passwordResets, owners, business,
                 verifiedEmails>>

\* await prisma.business.update(...), of either route.
BusinessUpdate(p, storeFails) ==
  /\ calls[p].pc = "updateBusiness"
  /\ IF storeFails
       THEN /\ calls' = [calls EXCEPT ![p] = Answered(@, 500)]
            /\ resp' = Reply(calls[p].op, 500, 0, "", calls[p].req)
            /\ UNCHANGED business
       ELSE /\ business' = [business EXCEPT
                              ![calls[p].read].name = SetIfGiven(@, calls[p].req.name)]
            /\ calls' = [calls EXCEPT ![p].pc = "increment"]
            /\ resp' = NoResp
  /\ UNCHANGED <<storeVars, otpRequestTimes, passwordResets, owners, verifiedEmails>>

\* await businessOwner.update({ restaurantEditCount: { increment: 1 } }), then
\* the 200 of either route.
BusinessIncrement(p) ==
  /\ calls[p].pc = "increment"
  /\ LET u == FoundOwner(calls[p].req.userId)
     IN IF u = 0
          THEN /\ calls' = [calls EXCEPT ![p] = Answered(@, 500)]
               /\ resp' = Reply(calls[p].op, 500, 0, "", calls[p].req)
               /\ UNCHANGED owners
          ELSE /\ owners' = [owners EXCEPT ![u].restaurantEditCount = @ + 1]
               /\ calls' = [calls EXCEPT ![p] = Answered(@, 200)]
               /\ resp' = Reply(calls[p].op, 200, 0, "", calls[p].req)
  /\ UNCHANGED <<storeVars, otpRequestTimes, passwordResets, business, verifiedEmails>>

(***************************************************************************)
(* POST /api/customers/register, followed await by await: the tenant's     *)
(* highest customerId is read in one query and used in a later create.     *)
(***************************************************************************)
MaxCustomers == 4

\* The rows of a tenant.
CustomersOf(b) == {c \in DOMAIN customers : customers[c].businessId = b}

\* lastCustomer ? lastCustomer.customerId + 1 : 1
newCustomerId(b) ==
  IF CustomersOf(b) = {} THEN 1
  ELSE customers[CHOOSE c \in CustomersOf(b) :
                   \A d \in CustomersOf(b) :
                      customers[d].customerId <= customers[c].customerId]
       .customerId + 1

\* A plausible slip: the unique index on (customerId, businessId) is missing.
CustomerIdFree(b, cid) == FALSE

\* Customer_customerId_businessId_key
CustomerIdTaken(b, cid) ==
  \E c \in CustomersOf(b) : customers[c].customerId = cid

\* Customer_email_businessId_key
CustomerEmailTaken(b, email) ==
  \E c \in CustomersOf(b) : customers[c].email = email

\* The handler up to its first await: the businessId check.
RegisterCustomerStart(p, b, email, name) ==
  /\ Free(p)
  /\ LET req == [NoReq EXCEPT !.businessId = b, !.email = email, !.name = name]
     IN IF b = 0
          THEN /\ calls' = [calls EXCEPT
                              ![p] = Answered(Arrived("registerCustomer", req), 400)]
               /\ resp' = Reply("registerCustomer", 400, 0, "", req)
          ELSE /\ calls' = [calls EXCEPT ![p] = Arrived("registerCustomer", req)]
               /\ resp' = NoResp
  /\ UNCHANGED <<storeVars, otpRequestTimes, passwordResets, owners, business,
                 verifiedEmails>>

\* await business.findUnique, then await customer.findFirst({ email, businessId })
RegisterCustomerFind(p) ==
  /\ calls[p].pc \in {"handler", "findExisting"} /\ calls[p].op = "registerCustomer"
  /\ LET req == calls[p].req
     IN IF calls[p].pc = "handler"
          THEN IF req.businessId \notin DOMAIN business
                 THEN /\ calls' = [calls EXCEPT ![p] = Answered(@, 404)]
                      /\ resp' = Reply("registerCustomer", 404, 0, "", req)
                 ELSE /\ calls' = [calls EXCEPT ![p].pc = "findExisting"]
                      /\ resp' = NoResp
        ELSE IF CustomerEmailTaken(req.businessId, req.email)
          THEN /\ calls' = [calls EXCEPT ![p] = Answered(@, 400)]
               /\ resp' = Reply("registerCustomer", 400, 0, "", req)
        ELSE /\ calls' = [calls EXCEPT ![p].pc = "findLast"]
             /\ resp' = NoResp
  /\ UNCHANGED <<storeVars, otpRequestTimes, passwordResets, owners, business,
                 verifiedEmails>>

\* await customer.findFirst({ businessId }, orderBy customerId desc)
RegisterCustomerFindLast(p) ==
  /\ calls[p].pc = "findLast" /\ calls[p].op = "registerCustomer"
  /\ calls' = [calls EXCEPT ![p].pc = "create",
                            ![p].read = newCustomerId(calls[p].req.businessId)]
  /\ resp' = NoResp
  /\ UNCHANGED <<storeVars, otpRequestTimes, passwordResets, owners, business,
                 verifiedEmails>>

\* await customer.create(...): a unique index may refuse the row (500).
RegisterCustomerCreate(p, storeFails) ==
  /\ calls[p].pc = "create" /\ calls[p].op = "registerCustomer"
  /\ LET req == calls[p].req
         id == Cardinality(DOMAIN customers) + 1
     IN IF \/ storeFails
           \/ CustomerIdTaken(req.businessId, calls[p].read)
           \/ CustomerEmailTaken(req.businessId, req.email)
          THEN /\ calls' = [calls EXCEPT ![p] = Answered(@, 500)]
               /\ resp' = Reply("registerCustomer", 500, 0, "", req)
               /\ UNCHANGED customers
          ELSE /\ customers' =
                    customers @@
                    (id :> [businessId |-> req.businessId,
                            customerId |-> calls[p].read, name |-> req.name,
                            email |-> req.email, points |-> 0, totalOrders |-> 0,
                            totalMoneySpent |-> 0])
               /\ calls' = [calls EXCEPT ![p] = Answered(@, 201)]
               /\ resp' = Reply("registerCustomer", 201, id, "", req)
  /\ UNCHANGED <<orders, items, products, tables, inventory, coupons, plans, now,
                 put, otpRequestTimes, passwordResets, owners, business,
                 verifiedEmails>>

(***************************************************************************)
(* PATCH /api/orders/:orderId/items/:productId/status, followed await by   *)
(* await: find the order, write the item, re-read the order, write the     *)
(* derived order status.                                                   *)
(***************************************************************************)
\* The middleware and the businessId check, before the first await.
ItemStatusStart(p, tok, oid, pid, status) ==
  /\ Free(p)
  /\ LET req == [NoReq EXCEPT !.tok = tok, !.oid = oid, !.productId = pid,
                              !.status = status]
         code == IF OwnerAuth(tok) # 0 THEN OwnerAuth(tok)
                 ELSE IF tok.businessId = 0 THEN 401
                 ELSE 0
     IN IF code # 0
          THEN /\ calls' = [calls EXCEPT
                              ![p] = Answered(Arrived("itemStatus", req), code)]
               /\ resp' = Reply("itemStatus", code, oid, "", req)
          ELSE /\ calls' = [calls EXCEPT ![p] = Arrived("itemStatus", req)]
               /\ resp' = NoResp
  /\ UNCHANGED <<storeVars, otpRequestTimes, passwordResets, owners, business,
                 verifiedEmails>>

\* await order.findUnique({ include items }); the tenant and the item checks.
ItemStatusFindOrder(p) ==
  /\ calls[p].pc = "handler" /\ calls[p].op = "itemStatus"
  /\ LET req == calls[p].req
     IN IF req.oid \notin DOMAIN orders
           \/ orders[req.oid].businessId # req.tok.businessId
          THEN /\ calls' = [calls EXCEPT ![p] = Answered(@, 403)]
               /\ resp' = Reply("itemStatus", 403, req.oid, "", req)
        ELSE IF ~(\E i \in 1..Len(items[req.oid]) :
                     items[req.oid][i].productId = req.productId)
          THEN /\ calls' = [calls EXCEPT ![p] = Answered(@, 404)]
               /\ resp' = Reply("itemStatus", 404, req.oid, "", req)
        ELSE /\ calls' = [calls EXCEPT ![p].pc = "updateMany"]
             /\ resp' = NoResp
  /\ UNCHANGED <<storeVars, otpRequestTimes, passwordResets, owners, business,
                 verifiedEmails>>

\* await orderItem.updateMany({ orderId, productId }, { status })
ItemStatusUpdateMany(p) ==
  /\ calls[p].pc = "updateMany" /\ calls[p].op = "itemStatus"
  /\ items' = [items EXCEPT ![calls[p].req.oid] =
                 WithItemStatus(@, calls[p].req.productId, calls[p].req.status)]
  /\ calls' = [calls EXCEPT ![p].pc = "reread"]
  /\ resp' = NoResp
  /\ UNCHANGED <<orders, products, customers, tables, inventory, coupons, plans, now,
                 put, otpRequestTimes, passwordResets, owners, business,
                 verifiedEmails>>

\* await order.findUnique({ include items }) again; newOrderStatus is kept.
ItemStatusReread(p) ==
  /\ calls[p].pc = "reread" /\ calls[p].op = "itemStatus"
  /\ calls' = [calls EXCEPT ![p].pc = "writeOrder",
                            ![p].read = DerivedStatus(items[calls[p].req.oid])]
  /\ resp' = NoResp
  /\ UNCHANGED <<storeVars, otpRequestTimes, passwordResets, owners, business,
                 verifiedEmails>>

\* await order.update({ status: newOrderStatus }), then the 200.
ItemStatusWriteOrder(p) ==
  /\ calls[p].pc = "writeOrder" /\ calls[p].op = "itemStatus"
  /\ orders' = [orders EXCEPT ![calls[p].req.oid].status = calls[p].read]
  /\ calls' = [calls EXCEPT ![p] = Answered(@, 200)]
  /\ resp' = Reply("itemStatus", 200, calls[p].req.oid, calls[p].read, calls[p].req)
  /\ UNCHANGED <<items, products, customers, tables, inventory, coupons, plans, now,
                 put, otpRequestTimes, passwordResets, owners, business,
                 verifiedEmails>>

(***************************************************************************)
(* POST /api/orders followed await by await: the order is created, the     *)
(* balance read, the points decremented, the earnings added, the stock     *)
(* lowered.                                                                *)
(***************************************************************************)
\* The handler up to its first await: the token and the three body checks.
PlaceOrderStart(p, tok, body) ==
  /\ Free(p)
  /\ LET req == [body EXCEPT !.tok = tok]
     IN IF ~CreateValid(req)
          THEN /\ calls' = [calls EXCEPT
                              ![p] = Answered(Arrived("placeOrder", req), 400)]
               /\ resp' = Reply("placeOrder", 400, 0, "", req)
          ELSE /\ calls' = [calls EXCEPT ![p] = Arrived("placeOrder", req)]
               /\ resp' = NoResp
  /\ UNCHANGED <<storeVars, otpRequestTimes, passwordResets, owners, business,
                 verifiedEmails>>

\* await prisma.order.create({ ... items: { create } })
PlaceOrderCreate(p, storeFails) ==
  /\ calls[p].pc = "handler" /\ calls[p].op = "placeOrder"
  /\ LET req == calls[p].req
         cid == OrderCustomerId(req.tok)
         oid == Len(orders) + 1
     IN IF storeFails \/ ~CreateForeignKeysHold(req, cid)
          THEN /\ calls' = [calls EXCEPT ![p] = Answered(@, 500)]
               /\ resp' = Reply("placeOrder", 500, 0, "", req)
               /\ UNCHANGED <<orders, items>>
          ELSE /\ orders' = Append(orders, NewOrderRow(req, cid))
               /\ items' = Append(items, NewItemRows(req.cart_items))
               /\ calls' = [calls EXCEPT
                              ![p].req.oid = oid,
                              ![p].pc = IF cid # 0 /\ req.pointsUsed > 0
                                          THEN "findCustomer"
                                        ELSE IF cid # 0 THEN "accrue"
                                        ELSE "stock"]
               /\ resp' = NoResp
  /\ UNCHANGED <<products, customers, tables, inventory, coupons, plans, now, put,
                 otpRequestTimes, passwordResets, owners, business, verifiedEmails>>

\* await customer.findUnique; customer && (customer.points ?? 0) >= pointsUsed
PlaceOrderFindCustomer(p) ==
  /\ calls[p].pc = "findCustomer" /\ calls[p].op = "placeOrder"
  /\ LET cid == OrderCustomerId(calls[p].req.tok)
     IN calls' = [calls EXCEPT
                    ![p].pc = IF cid \in DOMAIN customers
                                 /\ customers[cid].points >= calls[p].req.pointsUsed
                                THEN "decrement"
                                ELSE "accrue"]
  /\ resp' = NoResp
  /\ UNCHANGED <<storeVars, otpRequestTimes, passwordResets, owners, business,
                 verifiedEmails>>

\* await customer.update({ points: { decrement: pointsUsed } })
PlaceOrderDecrement(p) ==
  /\ calls[p].pc = "decrement" /\ calls[p].op = "placeOrder"
  /\ customers' = [customers EXCEPT
                     ![OrderCustomerId(calls[p].req.tok)].points =
                        @ - calls[p].req.pointsUsed]
  /\ calls' = [calls EXCEPT ![p].pc = "accrue"]
  /\ resp' = NoResp
  /\ UNCHANGED <<orders, items, products, tables, inventory, coupons, plans, now, put,
                 otpRequestTimes, passwordResets, owners, business, verifiedEmails>>

\* await customer.update({ totalOrders, totalMoneySpent, points increments })
PlaceOrderAccrue(p) ==
  /\ calls[p].pc = "accrue" /\ calls[p].op = "placeOrder"
  /\ customers' = Accrue(customers, OrderCustomerId(calls[p].req.tok),
                         calls[p].req.total_amount)
  /\ calls' = [calls EXCEPT ![p].pc = "stock"]
  /\ resp' = NoResp
  /\ UNCHANGED <<orders, items, products, tables, inventory, coupons, plans, now, put,
                 otpRequestTimes, passwordResets, owners, business, verifiedEmails>>

\* The ingredient loop, then the 201.
PlaceOrderStock(p) ==
  /\ calls[p].pc = "stock" /\ calls[p].op = "placeOrder"
  /\ inventory' = DeductCart(inventory, calls[p].req.businessId,
                             calls[p].req.cart_items)
  /\ calls' = [calls EXCEPT ![p] = Answered(@, 201)]
  /\ resp' = Reply("placeOrder", 201, calls[p].req.oid, "Pending", calls[p].req)
  /\ UNCHANGED <<orders, items, products, customers, tables, coupons, plans, now, put,
                 otpRequestTimes, passwordResets, owners, business, verifiedEmails>>

(***************************************************************************)
(* Users of a business: add-user, update-user, delete-user.                *)
(***************************************************************************)
MaxUsers == 3

\* The JS value undefined of a body field, apart from every string sent.
undefined == "undefined"

\* The status the middleware of the user routes sends before the handler:
\* authenticateBusinessOwnerJWT, then authorizeRoles("Owner", "Manager").
UserRouteGate(tok) ==
  IF OwnerAuth(tok) # 0 THEN OwnerAuth(tok)
  ELSE IF tok.role = "" THEN 401
  ELSE IF ~isRoleAllowed(tok.role, {"owner", "manager"}) THEN 403
  ELSE 0

\* POST /api/business/:businessId/add-user
AddUser(tok, b, email, role, storeFails) ==
  /\ LET req == [NoReq EXCEPT !.tok = tok, !.businessId = b, !.email = email,
                              !.role = role, !.storeFails = storeFails]
         code == IF UserRouteGate(tok) # 0 THEN UserRouteGate(tok)
                 ELSE IF tok.businessId # b THEN 403
                 ELSE IF storeFails THEN 500
                 ELSE IF b \notin DOMAIN business THEN 404
                 ELSE IF OwnerIds(email) # {} THEN 400
                 ELSE IF role = undefined THEN 500
                 ELSE 201
     IN /\ resp' = Reply("addUser", code, 0, "", req)
        /\ IF code = 201
             THEN owners' = Append(owners,
                              [email |-> email, password |-> "old", businessId |-> b,
                               role |-> role, restaurantEditCount |-> 0,
                               exists |-> TRUE])
             ELSE UNCHANGED owners
  /\ UNCHANGED <<storeVars, calls, otpRequestTimes, passwordResets, business,
                 verifiedEmails>>

\* userToUpdate.role === "Owner" && role && role !== "Owner"
RoleChangeRefused(user, role) ==
  user.role = "Owner" /\ role # undefined /\ role # "" /\ role # "Owner"

\* PUT /api/users/:userId
UpdateUser(tok, id, role, storeFails) ==
  /\ LET req == [NoReq EXCEPT !.tok = tok, !.userId = id, !.role = role,
                              !.storeFails = storeFails]
         code == IF UserRouteGate(tok) # 0 THEN UserRouteGate(tok)
                 ELSE IF storeFails THEN 500
                 ELSE IF FoundOwner(id) = 0 THEN 404
                 ELSE IF owners[id].businessId # tok.businessId THEN 403
                 ELSE IF RoleChangeRefused(owners[id], role) THEN 403
                 ELSE 200
     IN /\ resp' = Reply("updateUser", code, 0, "", req)
        /\ IF code = 200
             THEN owners' = [owners EXCEPT
                               ![id].role = IF role = undefined THEN @ ELSE role]
             ELSE UNCHANGED owners
  /\ UNCHANGED <<storeVars, calls, otpRequestTimes, passwordResets, business,
                 verifiedEmails>>

\* DELETE /api/users/:userId
DeleteUser(tok, id, storeFails) ==
  /\ LET req == [NoReq EXCEPT !.tok = tok, !.userId = id, !.storeFails = storeFails]
         code == IF UserRouteGate(tok) # 0 THEN UserRouteGate(tok)
                 ELSE IF storeFails THEN 500
                 ELSE IF FoundOwner(id) = 0 THEN 404
                 ELSE IF owners[id].businessId # tok.businessId THEN 403
                 ELSE IF owners[id].role = "Owner" THEN 403
                 ELSE 200
     IN /\ resp' = Reply("deleteUser", code, 0, "", req)
        /\ IF code = 200
             THEN owners' = [owners EXCEPT ![id].exists = FALSE]
             ELSE UNCHANGED owners
  /\ UNCHANGED <<storeVars, calls, otpRequestTimes, passwordResets, business,
                 verifiedEmails>>

(***************************************************************************)
(* Requests the specifications draw from.                                  *)
(***************************************************************************)
Tea == [productId |-> 1, quantity |-> 1, price |-> 10, name |-> "Tea", status |-> ""]
Bun == [productId |-> 2, quantity |-> 1, price |-> 20, name |-> "Bun", status |-> ""]
BunServed == [Bun EXCEPT !.status = "Completed"]

OrderBody(b, t, cart, total, pts) ==
  [NoReq EXCEPT !.businessId = b, !.table_number = t, !.hasCart = TRUE,
                !.cart_items = cart, !.total_amount = total,
                !.payment_method = "cash", !.estimated_time = "15m",
                !.pointsUsed = pts]

UpdateBody(oid, b, hasCart, cart) ==
  [NoReq EXCEPT !.oid = oid, !.businessId = b, !.hasCart = hasCart,
                !.cart_items = cart, !.total_amount = 30,
                !.payment_method = "cash", !.estimated_time = "15m"]

CallerStatuses == {"Pending", "Completed"}

(***************************************************************************)
(* Spec: the order lifecycle of one tenant's guest orders, with the        *)
(* product routes.                                                         *)
(***************************************************************************)
LifecycleCreates ==
  {OrderBody(1, 1, <<Tea>>, 10, 0), OrderBody(1, 1, <<Tea, Bun>>, 30, 0),
   OrderBody(1, 1, <<>>, 30, 0)}

LifecycleUpdates ==
  {UpdateBody(o, 1, TRUE, c) : o \in OrderIds, c \in {<<>>, <<Tea>>, <<BunServed>>}}
  \cup {UpdateBody(1, 1, FALSE, <<>>), UpdateBody(1, 2, TRUE, <<Tea>>)}

Next ==
  \/ \E body \in LifecycleCreates, f \in BOOLEAN :
        Len(orders) < MaxOrders /\ CreateOrder(NoToken, body, f)
  \/ \E body \in LifecycleUpdates : PutOrderDelete(body)
  \/ \E f \in BOOLEAN : PutOrderWrite(f)
  \/ \E tok \in {OwnerToken(1), NoToken}, o \in OrderIds, st \in CallerStatuses :
        PatchOrderStatus(tok, o, st)
  \/ \E tok \in {OwnerToken(1), InvalidToken(1)}, o \in OrderIds :
        BillOrderStatus(tok, o, "Completed")
  \/ \E tok \in {OwnerToken(1), OwnerToken(2)}, o \in OrderIds, p \in ProductIds,
        st \in CallerStatuses :
        UpdateItemStatus(tok, o, p, st)
  \/ \E o \in OrderIds : CompleteAll(OwnerToken(1), o)
  \/ \E o \in OrderIds : GetOrder(o)
  \/ ListOrders(OwnerToken(1))
  \/ UpdateProduct(1, 15, "Chai")
  \/ DeleteProduct(2)

Spec == Init /\ [][Next]_vars

(***************************************************************************)
(* SpecPlacement: order placement with optional customer tokens and point  *)
(* redemption, with the product routes running between placements.         *)
(***************************************************************************)
PlacementTokens ==
  {NoToken, InvalidToken(1), CustomerLoginToken(1), CustomerLoginToken(2),
   IdToken(1), IdToken(3)}

PlacementCreates ==
  {OrderBody(1, 1, <<Tea>>, 50, 0), OrderBody(1, 1, <<Tea>>, 50, 5),
   OrderBody(1, 1, <<Tea, Bun>>, 250, 5), OrderBody(1, 1, <<Tea, Bun>>, 250, 2),
   OrderBody(1, 1, <<>>, 50, 0)}

NextPlacement ==
  \/ \E tok \in PlacementTokens, body \in PlacementCreates, f \in BOOLEAN :
        Len(orders) < MaxOrders /\ CreateOrder(tok, body, f)
  \/ UpdateProduct(1, 15, "Chai")
  \/ DeleteProduct(2)

SpecPlacement == Init /\ [][NextPlacement]_vars

(***************************************************************************)
(* SpecTables: table registration and the availability view over the       *)
(* orders of two tenants.                                                  *)
(***************************************************************************)
TablePairs == {<<1, 1>>, <<1, 2>>, <<2, 1>>}

NextTables ==
  \/ \E p \in TablePairs \cup {<<0, 1>>} : RegisterTable(p[1], p[2])
  \/ \E p \in TablePairs :
        Len(orders) < MaxOrders
        /\ CreateOrder(NoToken, OrderBody(p[1], p[2], <<Tea>>, 10, 0), FALSE)
  \/ \E o \in DOMAIN orders : CompleteAll(OwnerToken(orders[o].businessId), o)
  \/ \E o \in DOMAIN orders :
        UpdateItemStatus(OwnerToken(orders[o].businessId), o, 1, "Completed")
  \/ \E o \in DOMAIN orders :
        PatchOrderStatus(OwnerToken(orders[o].businessId), o, "Cancelled")
  \/ \E b \in Businesses : GetTables(b)

SpecTables == Init /\ [][NextTables]_vars

(***************************************************************************)
(* SpecRegistration: tables of two tenants registered again and again,     *)
(* with the availability view read in between.                             *)
(***************************************************************************)
NextRegistration ==
  \/ \E b \in Businesses \cup {0}, t \in TableNumbers : RegisterTable(b, t)
  \/ \E b \in Businesses : GetTables(b)

SpecRegistration == Init /\ [][NextRegistration]_vars

(***************************************************************************)
(* SpecTenants: owners and customers of two tenants writing stock rows,    *)
(* customer profiles and orders by id.                                     *)
(***************************************************************************)
InventoryIds == 1..3
CustomerIds == 1..3

TenantUpdates ==
  {[UpdateBody(o, b, TRUE, <<Tea>>) EXCEPT !.tok = OwnerToken(a)] :
     o \in OrderIds, a \in Businesses, b \in Businesses}

NextTenants ==
  \/ \E b \in Businesses :
        Len(orders) < MaxOrders
        /\ CreateOrder(NoToken, OrderBody(b, 1, <<Tea>>, 10, 0), FALSE)
  \/ \E body \in TenantUpdates : PutOrderDelete(body)
  \/ PutOrderWrite(FALSE)
  \/ \E tok \in {OwnerToken(1), OwnerToken(2), CustomerLoginToken(1), NoToken},
        id \in InventoryIds :
        UpdateInventory(tok, id, 7)
  \/ \E tok \in {OwnerToken(1), OwnerToken(2), InvalidToken(1)}, id \in InventoryIds :
        DeleteInventory(tok, id)
  \/ \E tok \in {CustomerLoginToken(1), CustomerLoginToken(2), NoToken},
        id \in CustomerIds :
        UpdateCustomer(tok, id, "Zed")

SpecTenants == Init /\ [][NextTenants]_vars

(***************************************************************************)
(* SpecCoupons: users of two tenants creating, editing and validating      *)
(* coupons while time passes.                                              *)
(***************************************************************************)
MaxCoupons == 2

Codes == {<<"a", "b">>, <<"A", "B">>, <<"a", "B">>, <<"b">>, <<"B">>, <<>>}

CouponBodies ==
  {CouponBody(<<"a", "b">>, "percent", 20, NumberCap(500), 1000, 3, 3),
   CouponBody(<<"B">>, "percent", 20, TextCap(0), 0, 0, 6),
   CouponBody(<<"B">>, "flat", 50, NoCap, 500, 0, 3),
   CouponBody(<<>>, "flat", 50, NoCap, 500, 0, 3)}

CouponEdits == {CouponBody(<<"b">>, "percent", 10, NumberCap(0), 500, 3, 6)}

OrderTotals == {0, 500, 2500, 10000}

NextCoupons ==
  \/ \E tok \in {UserToken(1, "owner"), UserToken(2, "manager"), OwnerToken(1),
                 NoToken},
        body \in CouponBodies :
        Len(coupons) < MaxCoupons /\ CreateCoupon(tok, body)
  \/ \E tok \in {UserToken(1, "owner"), OwnerToken(2)}, id \in 1..MaxCoupons,
        body \in CouponEdits :
        UpdateCoupon(tok, id, body)
  \/ \E tok \in {OwnerToken(1), OwnerToken(2), InvalidToken(1)}, code \in Codes,
        total \in OrderTotals :
        ValidateCoupon(tok, code, total)
  \/ Tick(3)

SpecCoupons == Init /\ [][NextCoupons]_vars

(***************************************************************************)
(* SpecPlans: the plan of business 1 through upserts, status updates,      *)
(* reads and logins while time passes.                                     *)
(***************************************************************************)
\* <<name, expiresAt, status>> of an upsert request.
PlanUpserts ==
  {<<"trial", 0, "verified">>, <<"Pro", 3, "verified">>, <<"Pro", 3, "">>,
   <<"Gold Monthly", 0, "paused">>}

PlanStatuses == {"verified", "unverified", "cancelled", "active", "paused"}

NextPlans ==
  \/ \E tok \in {OwnerToken(1), NoToken}, u \in PlanUpserts :
        UpsertPlan(tok, u[1], u[2], u[3])
  \/ \E tok \in {OwnerToken(1), OwnerToken(2), SuperAdminToken},
        st \in PlanStatuses :
        UpdatePlanStatus(tok, 1, st)
  \/ \E tok \in {OwnerToken(1), OwnerToken(2), InvalidToken(1)} :
        GetSubscriptionStatus(tok, 1)
  \/ \E tok \in {OwnerToken(1), NoToken} : GetPlan(tok)
  \/ \E tok \in {OwnerToken(1), InvalidToken(1)} : GetUser(tok)
  \/ \E ok \in BOOLEAN : Login(1, ok)
  \/ Tick(3)

SpecPlans == Init /\ [][NextPlans]_vars

(***************************************************************************)
(* SpecUpdate: one tenant's orders edited by order updates and item-status *)
(* updates, with status words of the caller's choice.                      *)
(***************************************************************************)
MaxEdited == 1

TeaServed == [Tea EXCEPT !.status = "Served"]

EditCarts == {<<Tea>>, <<Bun, Tea>>, <<BunServed, Tea>>, <<TeaServed>>}

NextUpdate ==
  \/ \E cart \in {<<Tea>>, <<Tea, Bun>>} :
        Len(orders) < MaxEdited
        /\ CreateOrder(NoToken, OrderBody(1, 1, cart, 30, 0), FALSE)
  \/ \E o \in 1..MaxEdited, cart \in EditCarts :
        PutOrderDelete(UpdateBody(o, 1, TRUE, cart))
  \/ \E f \in BOOLEAN : PutOrderWrite(f)
  \/ \E o \in 1..MaxEdited, p \in ProductIds, st \in {"Completed", "Served"} :
        UpdateItemStatus(OwnerToken(1), o, p, st)
  \/ \E o \in 1..MaxEdited : PatchOrderStatus(OwnerToken(1), o, "Cancelled")

SpecUpdate == Init /\ [][NextUpdate]_vars

(***************************************************************************)
(* SpecStock: guest orders of two tenants drawing on the stock rows, with  *)
(* owners resetting stock quantities in between.                           *)
(***************************************************************************)
TeaTwice == [Tea EXCEPT !.quantity = 2]

StockCarts == {<<Tea>>, <<TeaTwice, Bun>>, <<Tea, TeaTwice>>, <<Bun>>}

NextStock ==
  \/ \E b \in Businesses, cart \in StockCarts, f \in BOOLEAN :
        Len(orders) < MaxOrders
        /\ CreateOrder(NoToken, OrderBody(b, 1, cart, 30, 0), f)
  \/ \E b \in Businesses, id \in DOMAIN InitInventory :
        UpdateInventory(OwnerToken(b), id, 7)
  \/ DeleteProduct(2)

SpecStock == Init /\ [][NextStock]_vars

(***************************************************************************)
(* SpecFetch: guest orders and single-order fetches in flight.  The event  *)
(* loop runs every continuation that is ready, so the handler step and the *)
(* error middleware are weakly fair.                                       *)
(***************************************************************************)
NextFetch ==
  \/ \E cart \in {<<Tea>>, <<Tea, Bun>>}, f \in BOOLEAN :
        Len(orders) < MaxOrders
        /\ CreateOrder(NoToken, OrderBody(1, 1, cart, 30, 0), f)
  \/ \E p \in Calls, oid \in OrderIds, f \in BOOLEAN : GetOrderArrive(p, oid, f)
  \/ \E p \in Calls, forwarded \in BOOLEAN : GetOrderHandler(p, forwarded)
  \/ \E p \in Calls : ErrorHandler(p)

SpecFetch ==
  /\ Init /\ [][NextFetch]_vars
  /\ \A p \in Calls : WF_vars(\E forwarded \in BOOLEAN : GetOrderHandler(p, forwarded))
  /\ \A p \in Calls : WF_vars(ErrorHandler(p))

(***************************************************************************)
(* SpecOtp: OTP requests for one address in flight in both slots, while    *)
(* the clock moves in half windows.                                        *)
(***************************************************************************)
NextOtp ==
  \/ \E p \in Calls : SendOtpStart(p, "Asha@x.io", "111111")
  \/ \E p \in Calls : SendOtpDeleteMany(p, FALSE)
  \/ \E p \in Calls : SendOtpCreate(p)
  \/ \E p \in Calls, f \in BOOLEAN : SendOtpMail(p, f)
  \/ Tick(3)

SpecOtp == Init /\ [][NextOtp]_vars

(***************************************************************************)
(* SpecReset: one OTP request at a time, verifications and password        *)
(* changes for a known and an unknown address.                             *)
(***************************************************************************)
NextReset ==
  \/ SendOtpStart(1, "Asha@x.io", "111111")
  \/ \E f \in BOOLEAN : SendOtpDeleteMany(1, f)
  \/ SendOtpCreate(1)
  \/ SendOtpMail(1, FALSE)
  \/ \E e \in Emails, otp \in Otps : VerifyOtp(e, otp, FALSE)
  \/ \E e \in Emails, f \in BOOLEAN : ChangePassword(e, "new", f)
  \/ Tick(3)

SpecReset == Init /\ [][NextReset]_vars

(***************************************************************************)
(* SpecBusiness: the owner of business 1 sends profile updates through     *)
(* both routes, two requests in flight.                                    *)
(***************************************************************************)
NextBusiness ==
  \/ \E p \in Calls, tok \in {LoginToken(1), NoToken}, hasLogo \in BOOLEAN :
        PostBusinessStart(p, tok, "Bistro", hasLogo)
  \/ \E p \in Calls : PostBusinessFindUser(p)
  \/ \E p \in Calls, id \in DOMAIN InitBusiness :
        PutBusinessStart(p, LoginToken(1), id, "Grill")
  \/ \E p \in Calls : PutBusinessFindUser(p)
  \/ \E p \in Calls : PutBusinessFindBusiness(p)
  \/ \E p \in Calls, f \in BOOLEAN : BusinessUpdate(p, f)
  \/ \E p \in Calls : BusinessIncrement(p)

SpecBusiness == Init /\ [][NextBusiness]_vars

(***************************************************************************)
(* SpecCustomers: customer registrations for both tenants and an unknown   *)
(* one, two requests in flight.                                            *)
(***************************************************************************)
NextCustomers ==
  \/ \E p \in Calls, b \in 0..3, email \in {"kim@c.io", "lee@c.io"} :
        Cardinality(DOMAIN customers) < MaxCustomers
        /\ RegisterCustomerStart(p, b, email, "Kim")
  \/ \E p \in Calls : RegisterCustomerFind(p)
  \/ \E p \in Calls : RegisterCustomerFindLast(p)
  \/ \E p \in Calls, f \in BOOLEAN : RegisterCustomerCreate(p, f)

SpecCustomers == Init /\ [][NextCustomers]_vars

(***************************************************************************)
(* SpecItems: an order of two items and item-status updates by the         *)
(* tenant's owner and a foreign one, two requests in flight.               *)
(***************************************************************************)
NextItems ==
  \/ Len(orders) < MaxEdited
     /\ CreateOrder(NoToken, OrderBody(1, 1, <<Tea, Bun>>, 30, 0), FALSE)
  \/ \E p \in Calls, tok \in {OwnerToken(1), OwnerToken(2), NoToken},
        pid \in ProductIds, status \in {"Completed", "Pending"} :
        ItemStatusStart(p, tok, 1, pid, status)
  \/ \E p \in Calls : ItemStatusFindOrder(p)
  \/ \E p \in Calls : ItemStatusUpdateMany(p)
  \/ \E p \in Calls : ItemStatusReread(p)
  \/ \E p \in Calls : ItemStatusWriteOrder(p)

SpecItems == Init /\ [][NextItems]_vars

(***************************************************************************)
(* SpecPoints: orders of one customer that redeem points, two requests in  *)
(* flight.                                                                 *)
(***************************************************************************)
NextPoints ==
  \/ \E p \in Calls, tok \in {IdToken(1), NoToken}, total \in {30, 250},
        pts \in {0, 2, InitPoints} :
        Len(orders) < MaxOrders
        /\ PlaceOrderStart(p, tok, OrderBody(1, 1, <<Tea>>, total, pts))
  \/ \E p \in Calls, f \in BOOLEAN : PlaceOrderCreate(p, f)
  \/ \E p \in Calls : PlaceOrderFindCustomer(p)
  \/ \E p \in Calls : PlaceOrderDecrement(p)
  \/ \E p \in Calls : PlaceOrderAccrue(p)
  \/ \E p \in Calls : PlaceOrderStock(p)

SpecPoints == Init /\ [][NextPoints]_vars

(***************************************************************************)
(* SpecUsers: the users of both businesses add, update and delete users.   *)
(***************************************************************************)
UserTokens == {LoginToken(u) : u \in {v \in DOMAIN owners : owners[v].exists}}

NextUsers ==
  \/ \E tok \in UserTokens \cup {NoToken}, b \in DOMAIN business,
        role \in {"Manager", "Staff"}, f \in BOOLEAN :
        Len(owners) < MaxUsers
        /\ AddUser(tok, b, "mia@x.io", role, f)
  \/ \E tok \in UserTokens, id \in 1..MaxUsers,
        role \in {undefined, "", "Manager", "Owner"}, f \in BOOLEAN :
        UpdateUser(tok, id, role, f)
  \/ \E tok \in UserTokens, id \in 1..MaxUsers, f \in BOOLEAN :
        DeleteUser(tok, id, f)

SpecUsers == Init /\ [][NextUsers]_vars

(***************************************************************************)
(* Properties.                                                             *)
(***************************************************************************)
\* The order status the specification derives from a list of item rows.
ExpectedStatus(its) ==
  IF Len(its) >= 1 /\ (\A i \in 1..Len(its) : its[i].status = "Completed")
    THEN "Completed"
    ELSE "Pending"

\* C1: immediately after an item-status update or a complete-all on an order
\* finishes, the stored order status is Completed if and only if the order has
\* at least one item and every item is Completed, and Pending otherwise.
C1_StoredStatusDerivedAfterItemOps ==
  (resp.op \in {"itemStatus", "completeAll"} /\ resp.code = 200)
    => orders[resp.oid].status = ExpectedStatus(items[resp.oid])

C3_TableAvailability ==
  /\ resp.op = "getTables" =>
       /\ {resp.list[i].key : i \in 1..Len(resp.list)}
            = {tables[j].tableNumber :
                 j \in {k \in DOMAIN tables :
                          tables[k].businessId = resp.req.businessId}}
       /\ \A i \in 1..Len(resp.list) :
             resp.list[i].status =
               IF \E o \in DOMAIN orders :
                     /\ orders[o].businessId = resp.req.businessId
                     /\ orders[o].tableNumber = resp.list[i].key
                     /\ orders[o].status # "Completed"
                 THEN "Booked"
                 ELSE "Available"
  /\ (resp.op \in {"itemStatus", "completeAll"} /\ resp.code = 200
      /\ resp.status = "Completed")
       => LET b == orders[resp.oid].businessId
              t == orders[resp.oid].tableNumber
              next == TablesWithStatus(b)
          IN (\A o \in DOMAIN orders :
                 (o # resp.oid /\ orders[o].businessId = b /\ orders[o].tableNumber = t)
                   => orders[o].status = "Completed")
               => \A i \in 1..Len(next) : next[i].key = t => next[i].status = "Available"

\* C3 witness: a read lists as Available a table on which the tenant's orders
\* are all Completed, while another tenant holds an order that is not Completed
\* on a table of the same number.
C3_Witness ==
  /\ resp.op = "getTables"
  /\ \E i \in 1..Len(resp.list) :
        /\ resp.list[i].status = "Available"
        /\ Cardinality({o \in DOMAIN orders :
                          /\ orders[o].businessId = resp.req.businessId
                          /\ orders[o].tableNumber = resp.list[i].key}) >= 1
        /\ \E o \in DOMAIN orders :
              /\ orders[o].businessId # resp.req.businessId
              /\ orders[o].tableNumber = resp.list[i].key
              /\ orders[o].status # "Completed"

\* C4: after creation every write of the stored order status writes the status
\* derived from the order's items: a step that changes an existing order's
\* stored status leaves it equal to the derived one.
C4_StatusWritesAreDerived ==
  [][\A o \in DOMAIN orders :
       orders'[o].status # orders[o].status
         => orders'[o].status = ExpectedStatus(items'[o])]_vars

\* C5: the status a single-order fetch or an order listing returns for an order
\* equals that order's stored status.
C5_ReadStatusEqualsStored ==
  /\ (resp.op = "getOrder" /\ resp.code = 200) => resp.status = orders[resp.oid].status
  /\ (resp.op = "listOrders" /\ resp.code = 200)
       => \A i \in 1..Len(resp.list) :
             resp.list[i].status = orders[resp.list[i].key].status

\* C6: after a successful order update the stored order status is Pending.
C6_UpdateResetsStoredStatus ==
  (resp.op = "update" /\ resp.code = 200) => orders[resp.oid].status = "Pending"

\* C7: every persisted order has at least one item, in every reachable state.
C7_NoOrderWithoutItems ==
  \A o \in DOMAIN orders : Len(items[o]) >= 1

\* C8: an order created with the token customer login issued to a customer
\* carries that customer's row id as its customer reference.
C8_LoginTokenAttachesCustomer ==
  (resp.op = "create" /\ resp.code = 201)
    => \A c \in DOMAIN customers :
          resp.req.tok = CustomerLoginToken(c) => orders[resp.oid].customerId = c

\* C9: an order creation without a bearer token, or with one that fails
\* verification, changes no customer row and is never answered 401 or 403; it
\* is answered 201 whenever the body is valid, the products of the cart exist
\* and the store accepts the write, and the order it creates has no customer.
C9_GuestFallback ==
  [][(resp'.op = "create" /\ resp'.req.tok.kind \in {"none", "invalid"}) =>
       /\ customers' = customers
       /\ resp'.code \in {201, 400, 500}
       /\ (CreateValid(resp'.req) /\ CartProductsExist(resp'.req.cart_items)
           /\ ~resp'.req.storeFails) => resp'.code = 201
       /\ resp'.code = 201 =>
            /\ Len(orders') = Len(orders) + 1
            /\ orders'[resp'.oid].customerId = 0]_vars

\* C9 witness: a creation that carried a token failing verification was answered
\* 201 and stored a guest order.
C9_Witness ==
  /\ resp.op = "create" /\ resp.code = 201
  /\ resp.req.tok.kind = "invalid"
  /\ orders[resp.oid].customerId = 0

\* The customer an order creation step attributes its order to (0: none).
AttributedCustomer ==
  IF resp'.op = "create" /\ resp'.code = 201 THEN orders'[resp'.oid].customerId ELSE 0

Caller == IF put'.active THEN put'.req.tok ELSE resp'.req.tok

\* C11: a request whose verified token carries tenant A changes or deletes no
\* inventory row, customer row, order row or order item of another tenant, and
\* an inventory or customer write addressed to another tenant's row is answered
\* with an error.
C11_TenantIsolation ==
  [][(VerifyToken(Caller) /\ Caller.businessId # 0) =>
       /\ \A r \in DOMAIN inventory :
             inventory[r].businessId # Caller.businessId
               => r \in DOMAIN inventory' /\ inventory'[r] = inventory[r]
       /\ \A c \in DOMAIN customers :
             customers[c].businessId # Caller.businessId
               => customers'[c] = customers[c]
       /\ \A o \in DOMAIN orders :
             orders[o].businessId # Caller.businessId
               => orders'[o] = orders[o] /\ items'[o] = items[o]
       /\ (/\ resp'.op \in {"updateInventory", "deleteInventory"}
           /\ resp'.oid \in DOMAIN inventory
           /\ inventory[resp'.oid].businessId # Caller.businessId)
            => resp'.code >= 400
       /\ (/\ resp'.op = "updateCustomer"
           /\ resp'.oid \in DOMAIN customers
           /\ customers[resp'.oid].businessId # Caller.businessId)
            => resp'.code >= 400]_vars

\* C12: a registration answered 200 for a (tableNumber, tenant) pair that has a
\* row adds no row and answers that row; one for a pair without a row adds
\* exactly that row and answers it; either way every other row is kept, and
\* afterwards each pair has at most one row and the registered pair exactly one.
C12_RegistrationIdempotent ==
  [][(resp'.op = "registerTable" /\ resp'.code = 200) =>
       LET b == resp'.req.businessId
           t == resp'.req.table_number
       IN /\ IF TableIds(tables, b, t) # {}
               THEN tables' = tables /\ resp'.oid \in TableIds(tables, b, t)
               ELSE /\ Len(tables') = Len(tables) + 1
                    /\ SubSeq(tables', 1, Len(tables)) = tables
                    /\ resp'.oid = Len(tables')
          /\ Cardinality(TableIds(tables', b, t)) = 1
          /\ tables'[resp'.oid] = [businessId |-> b, tableNumber |-> t]
          /\ \A i, j \in DOMAIN tables' :
                tables'[i] = tables'[j] => i = j]_vars

\* C12 witness: a registration has just answered a row that is not the newest
\* one, so the pair was registered before and the request created nothing.
C12_Witness ==
  /\ resp.op = "registerTable"
  /\ resp.code = 200
  /\ resp.oid < Len(tables)
  /\ tables[resp.oid].businessId = resp.req.businessId
  /\ tables[resp.oid].tableNumber = resp.req.table_number

\* C13: for a percent coupon that has a cap, an accepted validation answers
\* the smaller of the percentage of the order total and the cap, so never more
\* than the cap (amounts in hundredths).
C13_DiscountIsCapped ==
  (/\ resp.op = "validateCoupon" /\ resp.code = 200
   /\ coupons[resp.oid].discountType = "percent"
   /\ coupons[resp.oid].hasCap)
    => LET percentOfTotal == coupons[resp.oid].discountValue * resp.req.orderTotal
           cap == coupons[resp.oid].maxDiscount * 100
       IN /\ resp.discount = IF percentOfTotal <= cap THEN percentOfTotal ELSE cap
          /\ resp.discount <= cap

LowerLetter(c) ==
  CASE c = "A" -> "a"
    [] c = "B" -> "b"
    [] OTHER -> c

\* Two codes that differ at most in the case of their letters.
SameLetters(a, b) ==
  Len(a) = Len(b) /\ \A i \in 1..Len(a) : LowerLetter(a[i]) = LowerLetter(b[i])

\* The coupons a validation request may be granted: same letters as the code
\* sent, the caller's tenant, now inside the validity window, order total not
\* below the minimum.
Eligible ==
  {i \in DOMAIN coupons :
     /\ SameLetters(coupons[i].code, resp.req.code)
     /\ coupons[i].businessId = resp.req.tok.businessId
     /\ ~(coupons[i].validFrom > now)
     /\ ~(coupons[i].validTill < now)
     /\ ~(resp.req.orderTotal < coupons[i].minOrderValue)}

\* C14: a validation by an authenticated caller is answered with an error and
\* no discount unless some coupon has the letters of the code sent, belongs to
\* the caller's tenant, is inside its validity window and has a minimum order
\* value not above the order total; when there is such a coupon and an order
\* total is given, the validation is accepted for it whatever the case of the
\* letters sent.
C14_ValidationRejects ==
  (resp.op = "validateCoupon" /\ resp.code \notin {401, 403})
    => /\ Eligible = {} => (resp.code >= 400 /\ resp.discount = 0)
       /\ (Eligible # {} /\ resp.req.orderTotal # 0)
            => (resp.code = 200 /\ resp.oid \in Eligible)

\* C14 witness: a code sent in another case than the stored one is refused
\* because the tenant's coupon with these letters has expired.
C14_Witness ==
  /\ resp.op = "validateCoupon"
  /\ resp.code = 404
  /\ \E i \in DOMAIN coupons :
        /\ SameLetters(coupons[i].code, resp.req.code)
        /\ coupons[i].code # resp.req.code
        /\ coupons[i].businessId = resp.req.tok.businessId
        /\ coupons[i].validTill < now

\* C15: a subscription-status read, a current-plan read or a user-profile
\* read answered 200 for a plan stored as active leaves the stored status and
\* answers the status expired when now is past expiresAt, and active otherwise.
C15_ExpiryPersistedOnRead ==
  [][(/\ resp'.op \in {"subscriptionStatus", "getPlan", "getUser"}
      /\ resp'.code = 200
      /\ plans[resp'.oid].exists
      /\ plans[resp'.oid].status = "active")
       => IF now > plans[resp'.oid].expiresAt
            THEN plans'[resp'.oid].status = "expired" /\ resp'.status = "expired"
            ELSE plans'[resp'.oid].status = "active" /\ resp'.status = "active"]_vars

\* C16: a plan upsert, and a status update asking for active (as "verified"
\* or "active"), that passes authentication and authorisation while the plan
\* is stored active with expiresAt after now is answered 400 and leaves every
\* plan row as it was.
C16_ReverificationRejected ==
  [][(/\ \/ resp'.op = "upsertPlan"
         \/ resp'.op = "planStatus" /\ resp'.req.status \in {"verified", "active"}
      /\ resp'.code \notin {401, 403}
      /\ resp'.oid \in Businesses
      /\ plans[resp'.oid].exists
      /\ plans[resp'.oid].status = "active"
      /\ plans[resp'.oid].expiresAt > now)
       => (resp'.code = 400 /\ plans' = plans)]_vars

\* C16 witness: an upsert has just been refused with 400 for a business whose
\* plan is active and expires after now.
C16_Witness ==
  /\ resp.op = "upsertPlan"
  /\ resp.code = 400
  /\ resp.oid \in Businesses
  /\ plans[resp.oid].exists
  /\ plans[resp.oid].status = "active"
  /\ plans[resp.oid].expiresAt > now

\* C17: every stored plan status is pending, active, expired or cancelled; a
\* stored status changes only from pending to active, from active to expired,
\* from active to cancelled or from expired to cancelled; and a change to
\* cancelled is made by a status update only.
C17_PlanTransitions ==
  [][\A b \in Businesses :
       /\ plans'[b].exists
            => plans'[b].status \in {"pending", "active", "expired", "cancelled"}
       /\ (plans[b].exists /\ plans'[b].exists /\ plans'[b].status # plans[b].status)
            => /\ <<plans[b].status, plans'[b].status>> \in
                    {<<"pending", "active">>, <<"active", "expired">>,
                     <<"active", "cancelled">>, <<"expired", "cancelled">>}
               /\ plans'[b].status = "cancelled" => resp'.op = "planStatus"]_vars

\* C18: every stored order status and every stored order-item status is
\* Pending or Completed.
C18_StatusDomain ==
  \A o \in DOMAIN orders :
     /\ orders[o].status \in {"Pending", "Completed"}
     /\ \A i \in 1..Len(items[o]) : items[o][i].status \in {"Pending", "Completed"}

\* C19: an order update answered 200 stores, for each item of the request in
\* order, the status sent with it if there is one, else the status of an item
\* of the same product among the items the update deleted, else Pending.
C19_UpdatePreservesItemStatus ==
  [][(resp'.op = "update" /\ resp'.code = 200) =>
       LET cart == resp'.req.cart_items
           deleted == put.existingItems
           new == items'[resp'.oid]
       IN /\ Len(new) = Len(cart)
          /\ \A i \in 1..Len(cart) :
                LET same == {j \in 1..Len(deleted) :
                               deleted[j].productId = cart[i].productId}
                IN /\ new[i].productId = cart[i].productId
                   /\ IF cart[i].status # "" THEN new[i].status = cart[i].status
                      ELSE IF same # {}
                        THEN new[i].status \in {deleted[j].status : j \in same}
                      ELSE new[i].status = "Pending"]_vars

\* C19 witness: an update has just stored Completed for an item that came
\* without a status, next to an item of a product that came with one.
C19_Witness ==
  /\ resp.op = "update"
  /\ resp.code = 200
  /\ \E i \in 1..Len(resp.req.cart_items) :
        /\ resp.req.cart_items[i].status = ""
        /\ items[resp.oid][i].status = "Completed"
  /\ \E i \in 1..Len(resp.req.cart_items) : resp.req.cart_items[i].status # ""

RECURSIVE IngredientNeed(_, _, _)
IngredientNeed(pid, name, n) ==
  IF n = 0 \/ pid \notin DOMAIN products \/ ~products[pid].exists THEN 0
  ELSE IngredientNeed(pid, name, n - 1)
       + (IF products[pid].ingredients[n].name = name
             /\ products[pid].ingredients[n].numeric
            THEN products[pid].ingredients[n].quantity
            ELSE 0)

\* The quantity of the named ingredient the line items 1..n of a cart take.
RECURSIVE CartNeed(_, _, _)
CartNeed(cart, name, n) ==
  IF n = 0 THEN 0
  ELSE CartNeed(cart, name, n - 1)
       + cart[n].quantity
         * IngredientNeed(cart[n].productId, name,
                          IF cart[n].productId \in DOMAIN products
                            THEN Len(products[cart[n].productId].ingredients)
                            ELSE 0)

C22_ItemsOutliveProducts ==
  [][resp'.op \in {"updateProduct", "deleteProduct"} => items' = items]_vars

\* C23: every request eventually receives exactly one response: a request
\* whose handler has started is answered later, by the handler or by the
\* error middleware, and never twice.
C23_EveryRequestAnswered ==
  /\ \A p \in Calls : (calls[p].pc = "handler") ~> (calls[p].pc = "done")
  /\ [](\A p \in Calls : calls[p].sent <= 1
                         /\ (calls[p].pc = "done" => calls[p].sent = 1))

\* The OTP requests for an address accepted within the window that ends now.
AcceptedInWindow(e) ==
  Cardinality({i \in DOMAIN otpRequestTimes[e] :
                 otpRequestTimes[e][i] > now - OTP_WINDOW})

\* C24: for every email and every one-hour window at most OTP_REQUEST_LIMIT
\* OTP requests are accepted (stored, mailed and recorded), whatever the
\* interleaving of the requests for that email.
C24_OtpRateLimit ==
  \A e \in LowerEmails : AcceptedInWindow(e) <= OTP_REQUEST_LIMIT

\* C29: the stored password of an owner changes only after an OTP
\* verification for the owner's email has succeeded: a change request for an
\* email that was never verified leaves every password as it was.
C29_ChangeNeedsVerification ==
  [][\A u \in DOMAIN owners :
        (u \in DOMAIN owners' /\ owners'[u].password # owners[u].password)
          => owners[u].email \in verifiedEmails]_vars

\* C25: an owner updates an existing business at most once, through either
\* route and in every interleaving: each update answered 200 adds one to the
\* owner's edit count, so no edit count exceeds one.
C25_OneEditPerOwner ==
  \A u \in DOMAIN owners : owners[u].restaurantEditCount <= 1

\* C26: no two customers of one tenant share a customerId, also when
\* registrations interleave, and a registration answered 201 stores
\* customerId 1 for a tenant without customers, else the tenant's highest
\* customerId at that moment plus one.
C26_CustomerIdsUnique ==
  /\ [](\A c, d \in DOMAIN customers :
           (c # d /\ customers[c].businessId = customers[d].businessId)
             => customers[c].customerId # customers[d].customerId)
  /\ [][(resp'.op = "registerCustomer" /\ resp'.code = 201) =>
          /\ DOMAIN customers' = DOMAIN customers \cup {resp'.oid}
          /\ resp'.oid \notin DOMAIN customers
          /\ customers'[resp'.oid].businessId = resp'.req.businessId
          /\ customers'[resp'.oid].customerId = newCustomerId(resp'.req.businessId)
          /\ \A c \in DOMAIN customers : customers'[c] = customers[c]]_vars

\* C26 witness: two registrations for one tenant read the same highest
\* customerId; one was stored and the other refused by the unique index.
C26_Witness ==
  /\ calls[1].op = "registerCustomer" /\ calls[2].op = "registerCustomer"
  /\ calls[1].req.businessId = calls[2].req.businessId
  /\ calls[1].req.email # calls[2].req.email
  /\ calls[1].read = calls[2].read /\ calls[1].read > 1
  /\ ~calls[1].req.storeFails /\ ~calls[2].req.storeFails
  /\ {calls[1].code, calls[2].code} = {201, 500}

\* C27: once two item-status updates on different items of one order have
\* both been answered 200, the stored order status is the status derived
\* from the stored item statuses.
C27_InterleavedItemUpdates ==
  (/\ \A p \in Calls : /\ calls[p].pc = "done" /\ calls[p].op = "itemStatus"
                       /\ calls[p].code = 200
   /\ calls[1].req.oid = calls[2].req.oid
   /\ calls[1].req.productId # calls[2].req.productId)
  => orders[calls[1].req.oid].status = DerivedStatus(items[calls[1].req.oid])

HasOwner(us, b) ==
  \E u \in DOMAIN us : us[u].exists /\ us[u].businessId = b /\ us[u].role = "Owner"

\* C30: a business that has a user with role Owner still has one after every
\* add-user, update-user and delete-user request.
C30_OwnerKept ==
  [][\A b \in DOMAIN business : HasOwner(owners, b) => HasOwner(owners', b)]_vars

====
